---- MODULE Spec2Model ----
(***************************************************************************)
(* Verification model of mma-planner-pro.                                  *)
(*                                                                         *)
(*   Spec         PlannerService session store, one request at a time      *)
(*   RaceSpec     the same store with two overlapping requests             *)
(*   ValidateSpec PlannerService.validate_session_data as a function       *)
(*   StatsSpec    StatsService.calculate_comprehensive_stats as a function *)
(*   RollupSpec   the same function on lists with ties and several months   *)
(*   TrendSpec    StatsService.get_performance_trends as a function        *)
(*   AppSpec      the HTTP routes of app.py over its MockService           *)
(*   AdviceSpec   get_training_advice of both advisor services             *)
(*   AuthSpec     AuthService tokens and users under a ticking clock       *)
(*   AccountSpec  AuthService user records: creation, roles, deletion       *)
(*                                                                         *)
(* Python strings are sequences of code points, so that str.strip, the     *)
(* lexicographic order used by list.sort and the strptime grammar are      *)
(* computed and not assumed.                                               *)
(***************************************************************************)
EXTENDS Integers, Sequences, FiniteSets, TLC

VARIABLES
    file,      \* data/sessions.json: the stored list of session records
    now,       \* the wall clock read by datetime.now()
    issued,    \* history: ids handed out by save_session, oldest first
    saved,     \* history: records returned by save_session and not since updated or deleted
    last,      \* history: the last completed PlannerService call and its result
    pc,        \* RaceSpec: position of each request ("idle", "loaded", "done")
    req,       \* RaceSpec: the call each request makes
    snap,      \* RaceSpec: the list each request got from load_sessions
    base,      \* RaceSpec: the file content each request loaded from
    res,       \* RaceSpec: what each request returned
    order,     \* RaceSpec: history of the load and write events of a round
    rounds,    \* RaceSpec: rounds of requests completed
    vin,       \* ValidateSpec: the input mapping
    vout,      \* ValidateSpec: the outcome of validate_session_data(vin)
    sin,       \* StatsSpec: the session list handed to StatsService
    today,     \* StatsSpec: datetime.now().date() as a day number
    sout,      \* StatsSpec: the result of calculate_comprehensive_stats(sin)
    msessions, \* AppSpec: MockService._sessions of planner_service, in insertion order
    mnext,     \* AppSpec: MockService._next_id of planner_service
    reply,     \* AppSpec: history: the last request and the response it got
    akey,      \* AdviceSpec: is_configured, whether GEMINI_API_KEY was set at construction
    ain,       \* AdviceSpec: the sessions handed to get_training_advice
    aout,      \* AdviceSpec: what get_training_advice(ain) returned or raised
    aprev,     \* AdviceSpec: history: what the call before it, with the same ain, came to
    users,     \* AuthSpec: data/users.json, username -> password_hash and role
    tokens,    \* AuthSpec: AuthService.tokens, token -> username, created_at, expires_at
    tnow,      \* AuthSpec: datetime.now() in hours
    minted,    \* AuthSpec: history: every token generate_token has returned
    aret       \* AuthSpec: history: the validate_token, change_password or delete_user
               \* call that has just ended, and what it returned

storeVars == <<file, now, issued, saved, last>>
raceVars  == <<pc, req, snap, base, res, order, rounds>>
valVars   == <<vin, vout>>
statVars  == <<sin, today, sout>>
appVars   == <<msessions, mnext, reply>>
advVars   == <<akey, ain, aout, aprev>>
authVars  == <<users, tokens, tnow, minted, aret>>
vars      == <<file, now, issued, saved, last, pc, req, snap, base, res, order, rounds, vin, vout,
               sin, today, sout, msessions, mnext, reply, akey, ain, aout, aprev,
               users, tokens, tnow, minted, aret>>

----------------------------------------------------------------------------
(* Bounds *)

MaxSessions == 2      \* save_session is not called on a store of this size
MaxClock    == 1      \* the clock stops ticking here
MaxIssued   == 3      \* save_session is called at most this many times in a run
MaxRounds   == 2      \* RaceSpec: rounds of two overlapping requests
MaxList     == 3      \* StatsSpec: length of the list handed to StatsService
MaxDays     == 3      \* StatsSpec: days that pass after FirstDay
MaxPosts    == 2      \* AppSpec: POST /api/sessions stores at most this many sessions
MaxAdvised  == 3      \* AdviceSpec: length of the list handed to get_training_advice
MaxTokens   == 2      \* AuthSpec: generate_token is called at most this many times
MaxTicks    == 2      \* AuthSpec: the clock moves at most this many times
MaxRollup   == 4      \* RollupSpec: length of the list handed to StatsService
MaxTrend    == 6      \* TrendSpec: length of the list handed to get_performance_trends

----------------------------------------------------------------------------
(* Python str as a sequence of code points *)

Min(a, b) == IF a < b THEN a ELSE b

\* str < str : lexicographic order on code points
StrLess(a, b) ==
    \E k \in 1..(Min(Len(a), Len(b)) + 1) :
        /\ \A j \in 1..(k - 1) : a[j] = b[j]
        /\ IF k > Len(a) THEN k <= Len(b)
           ELSE k <= Len(b) /\ a[k] < b[k]

\* str.isspace for one character: space, \t \n \v \f \r
IsSpace(c) == c = 32 \/ c \in 9..13

IsDigit(c) == c \in 48..57

DigitVal(c) == c - 48

\* str.strip(): drop leading and trailing whitespace
Strip(s) ==
    LET keep == {i \in 1..Len(s) : ~IsSpace(s[i])}
    IN  IF keep = {} THEN <<>>
        ELSE LET lo == CHOOSE i \in keep : \A j \in keep : i <= j
                 hi == CHOOSE i \in keep : \A j \in keep : j <= i
             IN  SubSeq(s, lo, hi)

----------------------------------------------------------------------------
(* datetime.strptime(fecha, '%Y-%m-%d') *)

NoDate == <<0, 0, 0>>

IsLeap(y) == (y % 4 = 0 /\ y % 100 # 0) \/ y % 400 = 0

DaysInMonth(y, m) ==
    IF m = 2 THEN (IF IsLeap(y) THEN 29 ELSE 28)
    ELSE IF m \in {4, 6, 9, 11} THEN 30 ELSE 31

\* %m is 1[0-2]|0[1-9]|[1-9]; the result is 0 when the text does not match
MonthField(t) ==
    IF Len(t) = 2 /\ t[1] = 49 /\ t[2] \in 48..50 THEN 10 + DigitVal(t[2])
    ELSE IF Len(t) = 2 /\ t[1] = 48 /\ t[2] \in 49..57 THEN DigitVal(t[2])
    ELSE IF Len(t) = 1 /\ t[1] \in 49..57 THEN DigitVal(t[1])
    ELSE 0

\* %d is 3[0-1]|[1-2]\d|0[1-9]|[1-9]| [1-9]
DayField(t) ==
    IF Len(t) = 2 /\ t[1] = 51 /\ t[2] \in 48..49 THEN 30 + DigitVal(t[2])
    ELSE IF Len(t) = 2 /\ t[1] \in 49..50 /\ IsDigit(t[2]) THEN 10 * DigitVal(t[1]) + DigitVal(t[2])
    ELSE IF Len(t) = 2 /\ t[1] \in {48, 32} /\ t[2] \in 49..57 THEN DigitVal(t[2])
    ELSE IF Len(t) = 1 /\ t[1] \in 49..57 THEN DigitVal(t[1])
    ELSE 0

\* %Y is exactly four digits, then '-', %m, '-', %d and nothing else; the
\* date must exist in the calendar (year >= 1).  NoDate stands for ValueError.
ParseDate(s) ==
    LET dashes == {i \in 1..Len(s) : s[i] = 45}
    IN  IF Len(s) < 8 \/ Cardinality(dashes) # 2 \/ s[5] # 45
           \/ \E i \in 1..4 : ~IsDigit(s[i])
        THEN NoDate
        ELSE LET d2 == CHOOSE i \in dashes : i # 5
                 y  == 1000 * DigitVal(s[1]) + 100 * DigitVal(s[2])
                       + 10 * DigitVal(s[3]) + DigitVal(s[4])
                 m  == MonthField(SubSeq(s, 6, d2 - 1))
                 d  == DayField(SubSeq(s, d2 + 1, Len(s)))
             IN  IF d2 < 5 \/ y = 0 \/ m = 0 \/ d = 0 THEN NoDate
                 ELSE IF d > DaysInMonth(y, m) THEN NoDate
                 ELSE <<y, m, d>>

\* position of a date in the calendar order
DateOrd(ymd) == 10000 * ymd[1] + 100 * ymd[2] + ymd[3]

----------------------------------------------------------------------------
(* JSON values of a request body.  A number is held in halves (n = 2 * x), *)
(* the binary fractions that a double holds exactly: 45.5 is n = 91.       *)

Missing == [k |-> "missing", n |-> 0, s |-> <<>>]      \* the key is absent
Null    == [k |-> "null", n |-> 0, s |-> <<>>]         \* JSON null, Python None

Num(h) == [k |-> "num", n |-> h, s |-> <<>>]

Str(t) == [k |-> "str", n |-> 0, s |-> t]

\* dict.get(key, default)
Get(v, default) == IF v.k = "missing" THEN default ELSE v

\* truth value of a Python object: None, 0, 0.0 and '' are false
Truthy(v) == (v.k = "num" /\ v.n # 0) \/ (v.k = "str" /\ Len(v.s) > 0)

RECURSIVE DigitsValue(_)
\* value of a run of decimal digits
DigitsValue(t) ==
    IF Len(t) = 0 THEN 0
    ELSE 10 * DigitsValue(SubSeq(t, 1, Len(t) - 1)) + DigitVal(t[Len(t)])

MaxDigits == 8      \* longer digit runs are not in the input sets

\* the text after an optional sign
Unsigned(t) == IF Len(t) > 0 /\ t[1] \in {43, 45} THEN SubSeq(t, 2, Len(t)) ELSE t

Signed(t, n) == IF Len(t) > 0 /\ t[1] = 45 THEN 0 - n ELSE n

\* int(x): err is "" on success, else the exception int() raises.
\* A float is truncated towards zero; a string is stripped and must be an
\* optionally signed run of digits.
IntOf(v) ==
    IF v.k = "null" THEN [err |-> "TypeError", n |-> 0]
    ELSE IF v.k = "num"
    THEN [err |-> "", n |-> IF v.n >= 0 THEN v.n \div 2 ELSE 0 - ((0 - v.n) \div 2)]
    ELSE LET t == Strip(v.s)
             u == Unsigned(t)
         IN  IF Len(u) = 0 \/ Len(u) > MaxDigits \/ \E i \in 1..Len(u) : ~IsDigit(u[i])
             THEN [err |-> "ValueError", n |-> 0]
             ELSE [err |-> "", n |-> Signed(t, DigitsValue(u))]

\* float(x), in halves.  A string is stripped and read as an optionally
\* signed decimal "ddd", "ddd.", "ddd.f" or ".f"; the fractions of the
\* model's numbers are .0 and .5.
FloatOf(v) ==
    IF v.k = "null" THEN [err |-> "TypeError", n |-> 0]
    ELSE IF v.k = "num" THEN [err |-> "", n |-> v.n]
    ELSE LET t    == Strip(v.s)
             u    == Unsigned(t)
             dots == {i \in 1..Len(u) : u[i] = 46}
             dot  == IF dots = {} THEN Len(u) + 1 ELSE CHOOSE i \in dots : TRUE
             int  == SubSeq(u, 1, dot - 1)
             frac == SubSeq(u, dot + 1, Len(u))
         IN  IF \/ Cardinality(dots) > 1
                \/ Len(int) + Len(frac) = 0
                \/ Len(int) > MaxDigits
                \/ \E i \in 1..Len(int) : ~IsDigit(int[i])
                \/ \E i \in 1..Len(frac) : ~IsDigit(frac[i])
                \/ \E i \in 2..Len(frac) : frac[i] # 48
                \/ (Len(frac) > 0 /\ frac[1] \notin {48, 53})
             THEN [err |-> "ValueError", n |-> 0]
             ELSE [err |-> "",
                   n |-> Signed(t, 2 * DigitsValue(int)
                                   + (IF Len(frac) > 0 /\ frac[1] = 53 THEN 1 ELSE 0))]

----------------------------------------------------------------------------
(* PlannerService._calculate_calories *)

T_CARDIO    == <<67, 97, 114, 100, 105, 111>>                   \* "Cardio"
T_FUERZA    == <<70, 117, 101, 114, 122, 97>>                   \* "Fuerza"
T_JUDO      == <<74, 117, 100, 111>>                            \* "Judo"
T_MMA       == <<77, 77, 65>>                                   \* "MMA"
T_STRIKING  == <<83, 116, 114, 105, 107, 105, 110, 103>>        \* "Striking"
T_GRAPPLING == <<71, 114, 97, 112, 112, 108, 105, 110, 103>>    \* "Grappling"
T_TECNICO   == <<84, 233, 99, 110, 105, 99, 111>>               \* "Tecnico", e acute

\* valid_types
ValidTypes == {T_CARDIO, T_FUERZA, T_JUDO, T_MMA, T_STRIKING, T_GRAPPLING, T_TECNICO}

\* met_values.get(tipo, 7.0)
MetOf(tipo) ==
    IF tipo = T_CARDIO THEN 8
    ELSE IF tipo = T_FUERZA THEN 6
    ELSE IF tipo = T_JUDO THEN 10
    ELSE IF tipo = T_MMA THEN 12
    ELSE IF tipo = T_STRIKING THEN 9
    ELSE IF tipo = T_GRAPPLING THEN 10
    ELSE IF tipo = T_TECNICO THEN 4
    ELSE 7

DefaultPeso == 140      \* peso = 70, in halves

RECURSIVE Pow2(_)
Pow2(n) == IF n = 0 THEN 1 ELSE 2 * Pow2(n - 1)

RECURSIVE Pow2Mod60(_)
\* 2^n mod 60
Pow2Mod60(n) == IF n = 0 THEN 1 ELSE (2 * Pow2Mod60(n - 1)) % 60

\* floor(log2(q)) for q >= 1
FloorLog2(q) == CHOOSE e \in 0..30 : Pow2(e) <= q /\ q < Pow2(e + 1)

\* the binary exponent of tiempo / 60: tiempo / 60 lies in [2^-k, 2^(1-k))
HoursExponent(tiempo) ==
    CHOOSE k \in (0 - 3)..6 :
        IF k >= 0 THEN 60 <= tiempo * Pow2(k) /\ tiempo * Pow2(k) < 120
        ELSE 60 * Pow2(0 - k) <= tiempo /\ tiempo < 120 * Pow2(0 - k)

\* round() on a float: half to even
RoundHalfEven(num, den) ==
    LET q == num \div den
        r == num % den
    IN  IF 2 * r < den THEN q
        ELSE IF 2 * r > den THEN q + 1
        ELSE IF q % 2 = 0 THEN q ELSE q + 1

\* round(met * peso * (tiempo / 60)) in IEEE-754 double arithmetic, for
\* met * peso = a2 / 2 (exact in a double) and 1 <= tiempo <= 480.
\*   - tiempo / 60 is rounded to 53 bits first; it is exact iff 15 divides
\*     tiempo, else it is off by rem/60 (down) or (60-rem)/60 (up) units of
\*     2^-(52+k), where rem = tiempo * 2^(52+k) mod 60;
\*   - the product is rounded to 53 bits again.  The exact value a2*tiempo/120
\*     is a multiple of 1/120, so unless it is an exact half q + 1/2 the two
\*     rounding errors (below 2^-38) cannot move it across a half;
\*   - on an exact half the product is again q + 1/2 when the error carried
\*     by tiempo / 60 is at most half an ulp of q + 1/2, and otherwise a
\*     double on the side the quotient was rounded to.
FloatCalories(a2, tiempo) ==
    LET num == a2 * tiempo
        q   == num \div 120
        k   == HoursExponent(tiempo)
        rem == (tiempo * Pow2Mod60(52 + k)) % 60
        up  == rem > 30
        off == IF up THEN 60 - rem ELSE rem
    IN  IF num % 120 # 60 THEN RoundHalfEven(num, 120)
        ELSE IF tiempo % 15 = 0 THEN RoundHalfEven(num, 120)
        ELSE IF a2 * off <= 60 * Pow2(FloorLog2(q) + k) THEN RoundHalfEven(num, 120)
        ELSE IF up THEN q + 1 ELSE q

\* _calculate_calories(tipo, tiempo, peso), peso in halves
CalculateCalories(tipo, tiempo, peso) ==
    LET w == IF peso <= 0 THEN DefaultPeso ELSE peso
    IN  FloatCalories(MetOf(tipo) * w, tiempo)

----------------------------------------------------------------------------
(* PlannerService.validate_session_data *)

NoValidated == [fecha |-> <<>>, tipo |-> <<>>, tiempo |-> 0, peso |-> 0,
                calorias |-> 0, notas |-> <<>>, intensidad |-> Missing]

NoOutcome == [kind |-> "none", field |-> "", rec |-> NoValidated]

\* an exception leaves the function
Raise(kind, field) == [kind |-> kind, field |-> field, rec |-> NoValidated]

\* a step of the function went through with this value
Pass(v) == [kind |-> "ok", val |-> v]

Fail(kind) == [kind |-> kind, val |-> 0]

\* lines 98-108: fecha
ValidateFecha(data) ==
    LET v == Get(data.fecha, Str(<<>>))
    IN  IF v.k # "str" THEN Fail("AttributeError")
        ELSE IF Strip(v.s) = <<>> THEN Fail("ValueError")
        ELSE IF ParseDate(Strip(v.s)) = NoDate THEN Fail("ValueError")
        ELSE Pass(Strip(v.s))

\* lines 110-120: tipo
ValidateTipo(data) ==
    LET v == Get(data.tipo, Str(<<>>))
    IN  IF v.k # "str" THEN Fail("AttributeError")
        ELSE IF Strip(v.s) = <<>> THEN Fail("ValueError")
        ELSE IF Strip(v.s) \notin ValidTypes THEN Fail("ValueError")
        ELSE Pass(Strip(v.s))

MaxTiempo == 480

\* mutant: zero minutes are let through
ValidateTiempoFromZero(data) ==
    LET c == IntOf(Get(data.tiempo, Num(0)))
    IN  IF c.err \in {"ValueError", "TypeError"} THEN Fail("ValueError")
        ELSE IF c.n < 0 THEN Fail("ValueError")
        ELSE IF c.n > MaxTiempo THEN Fail("ValueError")
        ELSE Pass(c.n)

\* lines 122-131: tiempo; the ValueError raised inside the try block is
\* caught by its own except clause and raised again as a ValueError
ValidateTiempo(data) ==
    LET c == IntOf(Get(data.tiempo, Num(0)))
    IN  IF c.err \in {"ValueError", "TypeError"} THEN Fail("ValueError")
        ELSE IF c.n <= 0 THEN Fail("ValueError")
        ELSE IF c.n > MaxTiempo THEN Fail("ValueError")
        ELSE Pass(c.n)

MinPeso == 60       \* 30 kg, in halves
MaxPeso == 400      \* 200 kg, in halves

\* lines 133-144: peso
ValidatePeso(data) ==
    LET v == Get(data.peso, Num(0))
        c == FloatOf(v)
    IN  IF ~Truthy(v) THEN Pass(0)
        ELSE IF c.err \in {"ValueError", "TypeError"} THEN Fail("ValueError")
        ELSE IF c.n < MinPeso \/ c.n > MaxPeso THEN Fail("ValueError")
        ELSE Pass(c.n)

NotasLimit == 500

\* line 154: notas
ValidateNotas(data) ==
    LET v == Get(data.notas, Str(<<>>))
    IN  IF v.k # "str" THEN Fail("AttributeError")
        ELSE Pass(SubSeq(Strip(v.s), 1, Min(NotasLimit, Len(Strip(v.s)))))

S_MEDIA == <<77, 101, 100, 105, 97>>      \* "Media"
S_ALTA == <<65, 108, 116, 97>>      \* "Alta"
T_BOXEO == <<66, 111, 120, 101, 111>>      \* "Boxeo"

\* validate_session_data(data): the record it returns or the exception that
\* leaves it, with the field whose check raised
ValidateSessionData(data) ==
    LET fecha  == ValidateFecha(data)
        tipo   == ValidateTipo(data)
        tiempo == ValidateTiempo(data)
        peso   == ValidatePeso(data)
        notas  == ValidateNotas(data)
    IN  IF fecha.kind # "ok" THEN Raise(fecha.kind, "fecha")
        ELSE IF tipo.kind # "ok" THEN Raise(tipo.kind, "tipo")
        ELSE IF tiempo.kind # "ok" THEN Raise(tiempo.kind, "tiempo")
        ELSE IF peso.kind # "ok" THEN Raise(peso.kind, "peso")
        ELSE IF notas.kind # "ok" THEN Raise(notas.kind, "notas")
        ELSE [kind |-> "ok", field |-> "",
              rec |-> [fecha |-> fecha.val, tipo |-> tipo.val, tiempo |-> tiempo.val,
                       peso |-> peso.val,
                       calorias |-> CalculateCalories(tipo.val, tiempo.val, peso.val),
                       notas |-> notas.val,
                       intensidad |-> Get(data.intensidad, Str(S_MEDIA))]]

NoMapping == [fecha |-> Missing, tipo |-> Missing, tiempo |-> Missing, peso |-> Missing,
              calorias |-> Missing, notas |-> Missing, intensidad |-> Missing]

----------------------------------------------------------------------------
(* Session records as the store sees them.  The store reads and writes the *)
(* keys id, fecha, created_at and updated_at; body stands for the other    *)
(* keys of the dict (tipo, tiempo, peso, ...), which it only carries.      *)

NoId   == -1      \* the dict has no 'id' key
NoTime == -1      \* the dict has no 'created_at' / 'updated_at' key

F_OCT01 == <<50, 48, 50, 52, 45, 49, 48, 45, 48, 49>>      \* "2024-10-01"
F_SEP1  == <<50, 48, 50, 52, 45, 57, 45, 49>>              \* "2024-9-1"
F_M13   == <<50, 48, 50, 52, 45, 49, 51, 45, 48, 49>>      \* "2024-13-01"

\* the request bodies a client sends to the store
SessionData ==
    { [fecha |-> F_OCT01, body |-> "MMA"],
      [fecha |-> F_SEP1,  body |-> "Judo"],
      [fecha |-> F_M13,   body |-> "MMA"] }

NoRecord == [id |-> NoId, fecha |-> <<>>, body |-> "", created_at |-> NoTime, updated_at |-> NoTime]

Ids(sessions) == {sessions[i].id : i \in 1..Len(sessions)}

Records(sessions) == {sessions[i] : i \in 1..Len(sessions)}

\* list.sort(key=lambda x: x.get('fecha', ''), reverse=True): stable, descending
SortByFechaDesc(sessions) ==
    LET n == Len(sessions)
        rank(i) == Cardinality({j \in 1..n : StrLess(sessions[i].fecha, sessions[j].fecha)})
                   + Cardinality({j \in 1..(i - 1) : sessions[j].fecha = sessions[i].fecha})
                   + 1
    IN  [p \in 1..n |-> sessions[CHOOSE i \in 1..n : rank(i) = p]]

\* mutant: every record is renumbered by its position
LoadSessionsRenumber(f) ==
    SortByFechaDesc([i \in 1..Len(f) |-> [f[i] EXCEPT !.id = i - 1]])

\* PlannerService.load_sessions: read the file, give an id to records that
\* have none (their 0-based position), sort by fecha, most recent first
LoadSessions(f) ==
    LET withIds == [i \in 1..Len(f) |->
                       IF f[i].id = NoId THEN [f[i] EXCEPT !.id = i - 1] ELSE f[i]]
    IN  SortByFechaDesc(withIds)

\* mutant: the next id taken from the number of records
MaxIdByCount(sessions) == Len(sessions) - 1

\* max([s.get('id', 0) for s in sessions], default=-1)
MaxId(sessions) ==
    IF Len(sessions) = 0 THEN -1
    ELSE CHOOSE m \in Ids(sessions) : \A k \in Ids(sessions) : k <= m

\* save_session after its load: the record it builds and returns
NewSession(sessions, data, t) ==
    [id |-> MaxId(sessions) + 1, fecha |-> data.fecha, body |-> data.body,
     created_at |-> t, updated_at |-> NoTime]

\* save_session: the list it writes
SaveWrites(sessions, data, t) == Append(sessions, NewSession(sessions, data, t))

\* update_session: index of the first record with that id, 0 when there is none
FindId(sessions, id) ==
    IF id \in Ids(sessions)
    THEN CHOOSE i \in 1..Len(sessions) :
             sessions[i].id = id /\ \A j \in 1..(i - 1) : sessions[j].id # id
    ELSE 0

\* mutant: created_at is stamped again on update
UpdatedSessionRestamp(old, id, data, t) ==
    [id |-> id, fecha |-> data.fecha, body |-> data.body,
     created_at |-> t, updated_at |-> t]

\* update_session: the record that replaces sessions[i]
UpdatedSession(old, id, data, t) ==
    [id |-> id, fecha |-> data.fecha, body |-> data.body,
     created_at |-> IF old.created_at = NoTime THEN t ELSE old.created_at,
     updated_at |-> t]

\* update_session: the list it writes when the id is found
UpdateWrites(sessions, id, data, t) ==
    LET i == FindId(sessions, id)
    IN  [sessions EXCEPT ![i] = UpdatedSession(sessions[i], id, data, t)]

\* mutant: the filter compares with <= and drops older records too
DeleteWritesUpTo(sessions, id) ==
    LET keep == {i \in 1..Len(sessions) : sessions[i].id > id}
        pos(p) == CHOOSE i \in keep : Cardinality({j \in keep : j < i}) = p - 1
    IN  [p \in 1..Cardinality(keep) |-> sessions[pos(p)]]

\* delete_session: [s for s in sessions if s.get('id') != session_id]
DeleteWrites(sessions, id) ==
    LET keep == {i \in 1..Len(sessions) : sessions[i].id # id}
        pos(p) == CHOOSE i \in keep : Cardinality({j \in keep : j < i}) = p - 1
    IN  [p \in 1..Cardinality(keep) |-> sessions[pos(p)]]

----------------------------------------------------------------------------
(* The store, one request at a time (Spec) *)

NoData == [fecha |-> <<>>, body |-> ""]

\* the session ids a client names in PUT and DELETE requests
RequestIds == 0..(MaxIssued - 1) \cup {999}

NoCall == [op |-> "none", id |-> NoId, data |-> NoData, ok |-> FALSE,
           rec |-> NoRecord, out |-> <<>>, status |-> 0]

\* app.py update_session: 200 with the record, 404 when the service returns None
UpdateStatus(found) == IF found THEN 200 ELSE 404

\* app.py delete_session: 200 when the service returns True, else 404
DeleteStatus(success) == IF success THEN 200 ELSE 404

\* _ensure_data_file_exists: a fresh store holds the empty list
StoreInit ==
    /\ file = <<>>
    /\ now = 0
    /\ issued = <<>>
    /\ saved = {}
    /\ last = NoCall

RaceIdle ==
    /\ pc = [p \in {1, 2} |-> "idle"]
    /\ req = [p \in {1, 2} |-> [op |-> "none", id |-> NoId, data |-> NoData]]
    /\ snap = [p \in {1, 2} |-> <<>>]
    /\ base = [p \in {1, 2} |-> <<>>]
    /\ res = [p \in {1, 2} |-> [ok |-> FALSE, rec |-> NoRecord]]
    /\ order = <<>>
    /\ rounds = 0

ValidateIdle ==
    /\ vin = NoMapping
    /\ vout = NoOutcome

RECURSIVE DaysBeforeMonth(_, _)
\* days of year y that precede the first day of month m
DaysBeforeMonth(y, m) ==
    IF m = 1 THEN 0 ELSE DaysBeforeMonth(y, m - 1) + DaysInMonth(y, m - 1)

\* date.toordinal(): the day number of a date, 0001-01-01 being day 1;
\* date - timedelta(days=1) is the day number minus one
ToOrdinal(ymd) ==
    LET y == ymd[1] - 1
    IN  365 * y + (y \div 4) - (y \div 100) + (y \div 400)
        + DaysBeforeMonth(ymd[1], ymd[2]) + ymd[3]

\* the first value of datetime.now().date() in a run: 2024-02-29
FirstDay == ToOrdinal(<<2024, 2, 29>>)

\* no call of calculate_comprehensive_stats is pending
NoStats == [kind |-> "none", value |-> <<>>]

\* StatsSpec: no list has been handed to StatsService yet
StatsIdle ==
    /\ sin = <<>>
    /\ today = FirstDay
    /\ sout = NoStats

F_OCT02    == <<50, 48, 50, 52, 45, 49, 48, 45, 48, 50>>      \* "2024-10-02"
S_SUMISION == <<84, 233, 99, 110, 105, 99, 97, 32, 100, 101, 32, 115, 117, 109, 105, 115, 105, 243, 110>>      \* "Tecnica de sumision", with accents
S_PIES     == <<84, 114, 97, 98, 97, 106, 111, 32, 100, 101, 32, 112, 105, 101, 115>>      \* "Trabajo de pies"

\* MockService.__init__: the two sessions the mock store starts with
MockSessions ==
    <<[id |-> 1, data |-> [fecha |-> Str(F_OCT01), tipo |-> Str(T_GRAPPLING), tiempo |-> Num(180),
                           peso |-> Missing, calorias |-> Missing, notas |-> Str(S_SUMISION),
                           intensidad |-> Str(S_ALTA)]],
      [id |-> 2, data |-> [fecha |-> Str(F_OCT02), tipo |-> Str(T_BOXEO), tiempo |-> Num(120),
                           peso |-> Missing, calorias |-> Missing, notas |-> Str(S_PIES),
                           intensidad |-> Str(S_MEDIA)]]>>

\* a request that is not a JSON request
NoBody == [json |-> "none", data |-> NoMapping]

\* no request has been answered yet
NoReply == [route |-> "none", status |-> 0, request |-> NoBody, added |-> FALSE,
            stored |-> 0, format |-> "", service |-> ""]

\* AppSpec: app.py has been imported
AppIdle ==
    /\ msessions = MockSessions
    /\ mnext = 3
    /\ reply = NoReply

\* no call of get_training_advice is pending
NoAdvice == [kind |-> "none", type |-> "", advice |-> "", version |-> "", call |-> ""]

\* AdviceSpec: the advisor was constructed without GEMINI_API_KEY
AdviceIdle ==
    /\ akey = FALSE
    /\ ain = <<>>
    /\ aout = NoAdvice
    /\ aprev = NoAdvice

U_ADMIN    == <<97, 100, 109, 105, 110>>      \* "admin"
U_DEMO     == <<100, 101, 109, 111>>      \* "demo"
P_ADMIN123 == <<97, 100, 109, 105, 110, 49, 50, 51>>      \* "admin123"
P_DEMO123  == <<100, 101, 109, 111, 49, 50, 51>>      \* "demo123"
SALT       == <<109, 109, 97, 95, 116, 114, 97, 105, 110, 105, 110, 103, 95, 115, 97, 108, 116, 95, 50, 48, 50, 52>>      \* "mma_training_salt_2024"

\* AuthService._hash_password: SHA-256 of password + salt, taken to be
\* free of collisions
HashPassword(password) == <<"sha256", password \o SALT>>

\* default_users of _ensure_users_file_exists, reduced to the keys the
\* service reads
DefaultUsers ==
    (U_ADMIN :> [password_hash |-> HashPassword(P_ADMIN123), role |-> "admin"])
    @@ (U_DEMO :> [password_hash |-> HashPassword(P_DEMO123), role |-> "user"])

\* self.tokens = {}
NoTokens == [t \in {} |-> 0]

\* no validate_token call has ended since the clock moved
NoRet == [op |-> "none", token |-> 0, result |-> <<>>]

\* AuthSpec: AuthService() over a users file that did not exist
AuthIdle ==
    /\ users = DefaultUsers
    /\ tokens = NoTokens
    /\ tnow = 0
    /\ minted = NoTokens
    /\ aret = NoRet

Init == StoreInit /\ RaceIdle /\ ValidateIdle /\ StatsIdle /\ AppIdle /\ AdviceIdle /\ AuthIdle

\* time passes between two requests
Tick ==
    /\ now < MaxClock
    /\ now' = now + 1
    /\ UNCHANGED <<file, issued, saved, last>>

\* GET /api/sessions -> PlannerService.load_sessions
GetSessions ==
    /\ last' = [NoCall EXCEPT !.op = "load", !.ok = TRUE,
                              !.out = LoadSessions(file)]
    /\ UNCHANGED <<file, now, issued, saved>>

\* PlannerService.save_session(data)
SaveSession(data) ==
    \E sessions \in {LoadSessions(file)} :
    \E rec \in {NewSession(sessions, data, now)} :
        /\ Len(file) < MaxSessions
        /\ Len(issued) < MaxIssued
        /\ file' = SaveWrites(sessions, data, now)
        /\ issued' = Append(issued, rec.id)
        /\ saved' = saved \cup {[data |-> data, rec |-> rec]}
        /\ last' = [NoCall EXCEPT !.op = "save", !.id = rec.id, !.data = data,
                                  !.ok = TRUE, !.rec = rec]
        /\ UNCHANGED now

\* PlannerService.update_session(id, data)
UpdateSession(id, data) ==
    \E sessions \in {LoadSessions(file)} :
    \E i \in {FindId(sessions, id)} :
        /\ IF i # 0
           THEN /\ file' = UpdateWrites(sessions, id, data, now)
                /\ last' = [NoCall EXCEPT !.op = "update", !.id = id, !.data = data,
                                          !.ok = TRUE,
                                          !.status = UpdateStatus(TRUE),
                                          !.rec = UpdatedSession(sessions[i], id, data, now)]
           ELSE /\ file' = file
                /\ last' = [NoCall EXCEPT !.op = "update", !.id = id,
                                          !.status = UpdateStatus(FALSE)]
        /\ saved' = IF i # 0 THEN {r \in saved : r.rec.id # id} ELSE saved
        /\ UNCHANGED <<now, issued>>

\* PlannerService.delete_session(id)
DeleteSession(id) ==
    \E sessions \in {LoadSessions(file)} :
    \E kept \in {DeleteWrites(sessions, id)} :
    \E found \in {Len(kept) < Len(sessions)} :
        /\ file' = IF found THEN kept ELSE file
        /\ last' = [NoCall EXCEPT !.op = "delete", !.id = id, !.ok = found,
                                  !.status = DeleteStatus(found)]
        /\ saved' = IF found THEN {r \in saved : r.rec.id # id} ELSE saved
        /\ UNCHANGED <<now, issued>>

Next ==
    \/ Tick /\ UNCHANGED <<raceVars, valVars, statVars, appVars, advVars, authVars>>
    \/ GetSessions /\ UNCHANGED <<raceVars, valVars, statVars, appVars, advVars, authVars>>
    \/ \E data \in SessionData : SaveSession(data) /\ UNCHANGED <<raceVars, valVars, statVars, appVars, advVars, authVars>>
    \/ \E id \in RequestIds, data \in SessionData :
           UpdateSession(id, data) /\ UNCHANGED <<raceVars, valVars, statVars, appVars, advVars, authVars>>
    \/ \E id \in RequestIds : DeleteSession(id) /\ UNCHANGED <<raceVars, valVars, statVars, appVars, advVars, authVars>>

Spec == Init /\ [][Next]_vars

----------------------------------------------------------------------------
(* The store under two overlapping requests (RaceSpec).  A request is two  *)
(* steps: the load_sessions call that opens save_session, update_session   *)
(* and delete_session, and later the rest of the method, which works on    *)
(* the list it loaded and rewrites the whole file with _save_sessions.     *)
(* Nothing in the code serialises the two steps of different requests.     *)

Procs == {1, 2}

RaceData == {d \in SessionData : d.body = "MMA"}

RaceCalls ==
    [op : {"save"}, id : {NoId}, data : RaceData]
        \cup [op : {"update"}, id : 0..1, data : RaceData]
        \cup [op : {"delete"}, id : 0..1, data : {NoData}]

\* mutant: the request reads the file again before it writes
Reloaded(p) == LoadSessions(file)

\* the local variable `sessions` of request p when it reaches its write
Held(p) == snap[p]

\* first step of a request: sessions = self.load_sessions()
RaceBegin(p, call) ==
    /\ pc[p] = "idle"
    /\ rounds < MaxRounds
    /\ call.op = "save" => Len(file) < MaxSessions
    /\ pc' = [pc EXCEPT ![p] = "loaded"]
    /\ req' = [req EXCEPT ![p] = call]
    /\ base' = [base EXCEPT ![p] = file]
    /\ snap' = [snap EXCEPT ![p] = LoadSessions(file)]
    /\ order' = Append(order, <<p, "load">>)
    /\ UNCHANGED <<file, now, issued, saved, last, res, rounds>>

\* second step of a request: the rest of the method
RaceFinish(p) ==
    \E sessions \in {Held(p)} :
    \E i \in {FindId(sessions, req[p].id)} :
        /\ pc[p] = "loaded"
        /\ pc' = [pc EXCEPT ![p] = "done"]
        /\ IF req[p].op = "save"
           THEN /\ file' = SaveWrites(sessions, req[p].data, now)
                /\ res' = [res EXCEPT ![p] = [ok |-> TRUE,
                                              rec |-> NewSession(sessions, req[p].data, now)]]
                /\ order' = Append(order, <<p, "write">>)
           ELSE IF i = 0
           THEN /\ file' = file
                /\ res' = [res EXCEPT ![p] = [ok |-> FALSE, rec |-> NoRecord]]
                /\ order' = Append(order, <<p, "miss">>)
           ELSE IF req[p].op = "update"
           THEN /\ file' = UpdateWrites(sessions, req[p].id, req[p].data, now)
                /\ res' = [res EXCEPT ![p] = [ok |-> TRUE,
                               rec |-> UpdatedSession(sessions[i], req[p].id, req[p].data, now)]]
                /\ order' = Append(order, <<p, "write">>)
           ELSE /\ file' = DeleteWrites(sessions, req[p].id)
                /\ res' = [res EXCEPT ![p] = [ok |-> TRUE, rec |-> NoRecord]]
                /\ order' = Append(order, <<p, "write">>)
        /\ UNCHANGED <<now, issued, saved, last, req, snap, base, rounds>>

\* both responses are out; the next round of requests may start
RaceReturn ==
    /\ \A p \in Procs : pc[p] # "loaded"
    /\ \E p \in Procs : pc[p] = "done"
    /\ pc' = [p \in Procs |-> "idle"]
    /\ req' = [p \in Procs |-> [op |-> "none", id |-> NoId, data |-> NoData]]
    /\ snap' = [p \in Procs |-> <<>>]
    /\ base' = [p \in Procs |-> <<>>]
    /\ res' = [p \in Procs |-> [ok |-> FALSE, rec |-> NoRecord]]
    /\ order' = <<>>
    /\ rounds' = rounds + 1
    /\ UNCHANGED <<file, now, issued, saved, last>>

RaceNext ==
    \/ Tick /\ UNCHANGED <<raceVars, valVars, statVars, appVars, advVars, authVars>>
    \/ \E p \in Procs, call \in RaceCalls : RaceBegin(p, call) /\ UNCHANGED <<valVars, statVars, appVars, advVars, authVars>>
    \/ \E p \in Procs : RaceFinish(p) /\ UNCHANGED <<valVars, statVars, appVars, advVars, authVars>>
    \/ RaceReturn /\ UNCHANGED <<valVars, statVars, appVars, advVars, authVars>>

RaceSpec == Init /\ [][RaceNext]_vars

----------------------------------------------------------------------------
(* Claims about the session store *)

\* a PUT or DELETE call has just completed in this step
Called(op) == last'.op = op /\ (last' # last \/ file' # file)

\* C1: after any sequence of non-overlapping save_session, update_session
\* and delete_session calls from an empty store, no two stored records have
\* the same id.
C1_UniqueIds ==
    \A i, j \in 1..Len(file) : i # j => file[i].id # file[j].id

C1_Witness ==
    /\ Len(file) = 2
    /\ Len(issued) = 3
    /\ last.op = "update" /\ last.ok

\* C2: an id handed out by save_session is strictly greater than every id
\* handed out before it, so the id of a deleted record is never assigned
\* again.
C2_IdsNeverReused ==
    \A i, j \in 1..Len(issued) : i < j => issued[i] < issued[j]

\* C3: every load_sessions call made after save_session(r), and before an
\* update or delete of that record, returns exactly one record with the id
\* save_session returned; it carries the fields of r and the created_at that
\* save_session returned.
C3_RoundTrip ==
    last.op = "load" =>
        \A s \in saved :
            LET hits == {i \in 1..Len(last.out) : last.out[i].id = s.rec.id}
            IN  /\ Cardinality(hits) = 1
                /\ \A i \in hits :
                       /\ last.out[i].fecha = s.data.fecha
                       /\ last.out[i].body = s.data.body
                       /\ last.out[i].created_at = s.rec.created_at
                       /\ last.out[i] = s.rec

C3_Witness ==
    /\ last.op = "load"
    /\ Len(last.out) = 2
    /\ Cardinality(saved) = 1
    /\ \E r \in Records(file) : r.updated_at # NoTime
    /\ \E s \in saved : s.rec.created_at < now

\* C4: update_session(id, data) on a stored id replaces that record's fields
\* with data, keeps its id and created_at, sets updated_at, and leaves every
\* other record as it was (200); on an id that is not stored it returns None
\* (404) and the store is unchanged.
C4_UpdateFrame ==
    [][Called("update") =>
        IF last'.id \in Ids(file)
        THEN /\ last'.ok /\ last'.status = 200
             /\ Len(file') = Len(file)
             /\ Ids(file') = Ids(file)
             /\ \A r \in Records(file) : r.id # last'.id => r \in Records(file')
             /\ \A r \in Records(file), u \in Records(file') :
                    (r.id = last'.id /\ u.id = last'.id) =>
                        /\ u.fecha = last'.data.fecha
                        /\ u.body = last'.data.body
                        /\ u.created_at = r.created_at
                        /\ u.updated_at = now
                        /\ u = last'.rec
        ELSE /\ ~last'.ok /\ last'.status = 404
             /\ last'.rec = NoRecord
             /\ file' = file]_vars

C4_Witness ==
    /\ last.op = "update" /\ last.ok
    /\ Len(file) = 2
    /\ last.rec \in Records(file)
    /\ last.rec.created_at < last.rec.updated_at

\* C5: delete_session(id) on a stored id returns True (200) and removes that
\* record and no other; on an id that is not stored it returns False (404)
\* and the stored collection is unchanged.
C5_DeleteFrame ==
    [][Called("delete") =>
        IF last'.id \in Ids(file)
        THEN /\ last'.ok /\ last'.status = 200
             /\ Len(file') = Len(file) - 1
             /\ Records(file') = {r \in Records(file) : r.id # last'.id}
        ELSE /\ ~last'.ok /\ last'.status = 404
             /\ file' = file]_vars

C5_Witness ==
    /\ last.op = "delete" /\ last.ok
    /\ Len(file) = 1
    /\ \E r \in Records(file) : r.id > last.id

\* the example of the specification: DELETE 999 on a store with ids {1,2}
C5_Example ==
    (last.op = "delete" /\ last.id = 999 /\ Ids(file) = {1, 2})
        => (~last.ok /\ last.status = 404)

\* C6: with no locking, both requests of a round can load before either
\* writes; the store then holds what the last writer wrote from the list it
\* loaded, and the first writer's change, reported as a success, is gone.
RaceLoadsFirst ==
    /\ Len(order) = 4
    /\ order[1][2] = "load" /\ order[2][2] = "load"
    /\ order[3][2] = "write" /\ order[4][2] = "write"

C6_LastWriteWins ==
    RaceLoadsFirst =>
        LET first  == order[3][1]
            second == order[4][1]
        IN  /\ first # second
            /\ res[first].ok /\ res[second].ok
            /\ base[first] = base[second]
            /\ \A r \in Records(file) :
                   r \in Records(base[second]) \/ r = res[second].rec
            /\ \A r \in Records(base[second]) :
                   r.id # req[second].id => r \in Records(file)
            /\ req[second].op = "save" => Len(file) = Len(base[second]) + 1

C6_Witness ==
    /\ RaceLoadsFirst
    /\ req[order[3][1]].op = "save" /\ req[order[4][1]].op = "save"
    /\ res[order[3][1]].ok
    /\ res[order[3][1]].rec \notin Records(file)
    /\ res[order[4][1]].rec \in Records(file)

\* C7: for a store whose records all passed validate_session_data,
\* load_sessions returns them in descending order of the calendar date of
\* fecha.
C7_SortedByDate ==
    (\A r \in Records(file) : ParseDate(r.fecha) # NoDate) =>
        LET out == LoadSessions(file)
        IN  \A i \in 1..(Len(out) - 1) :
                DateOrd(ParseDate(out[i].fecha)) >= DateOrd(ParseDate(out[i + 1].fecha))

----------------------------------------------------------------------------
(* validate_session_data on the request bodies of ValidateSpec *)

F_OCT01_SP == <<32, 50, 48, 50, 52, 45, 49, 48, 45, 48, 49, 32>>      \* " 2024-10-01 "
T_MMA_SP   == <<32, 77, 77, 65, 32>>                                  \* " MMA "
S_90       == <<57, 48>>                                              \* "90"
S_45_5     == <<52, 53, 46, 53>>                                      \* "45.5"
S_ABC      == <<97, 98, 99>>                                          \* "abc"
S_80_5     == <<56, 48, 46, 53>>                                      \* "80.5"
S_0        == <<48>>                                                  \* "0"
S_EXTREMA  == <<69, 120, 116, 114, 101, 109, 97>>                     \* "Extrema"
S_HI_SP    == <<32, 104, 105, 32>>                                    \* " hi "

FechaInputs  == {Missing, Null, Str(F_OCT01), Str(F_SEP1), Str(F_M13), Str(F_OCT01_SP)}
TipoInputs   == {Missing, Null, Num(2), Str(T_FUERZA), Str(T_GRAPPLING), Str(T_MMA_SP),
                 Str(T_BOXEO)}
TiempoInputs == {Missing, Null, Num(0), Num(1), Num(2), Num(91), Num(130), Num(180),
                 Num(960), Num(961), Num(962), Num(0 - 2), Str(S_90), Str(S_45_5), Str(S_ABC)}
PesoInputs   == {Missing, Null, Num(0), Num(59), Num(60), Num(70), Num(160), Num(400),
                 Num(401), Str(S_80_5), Str(S_ABC), Str(S_0)}
CaloriasInputs   == {Missing, Num(19998)}
NotasInputs      == {Missing, Null, Str(S_HI_SP)}
IntensidadInputs == {Missing, Null, Str(S_ALTA), Str(S_EXTREMA)}

Mappings ==
    [fecha : FechaInputs, tipo : TipoInputs, tiempo : TiempoInputs, peso : PesoInputs,
     calorias : CaloriasInputs, notas : NotasInputs, intensidad : IntensidadInputs]

\* validate_session_data(data) runs on a request body
Validate(data) ==
    /\ vin' = data
    /\ vout' = ValidateSessionData(data)

\* the caller is between two calls and makes the next one
ValidateCall ==
    /\ vout.kind = "none"
    /\ \E data \in Mappings : Validate(data)

\* the caller has taken the record or the exception
ValidateReturn ==
    /\ vout.kind # "none"
    /\ vin' = NoMapping
    /\ vout' = NoOutcome

ValidateNext ==
    \/ ValidateCall /\ UNCHANGED <<storeVars, raceVars, statVars, appVars, advVars, authVars>>
    \/ ValidateReturn /\ UNCHANGED <<storeVars, raceVars, statVars, appVars, advVars, authVars>>

ValidateSpec == Init /\ [][ValidateNext]_vars

\* C8: every record validate_session_data returns has tipo in the
\* enumeration, 1 <= tiempo <= 480, peso 0 or in 30..200 and calorias >= 0,
\* and an input whose tipo, tiempo or peso is outside these is rejected with
\* an error.
C8_ValidatedRanges ==
    /\ vout.kind = "ok" =>
           /\ vout.rec.tipo \in ValidTypes
           /\ vout.rec.tiempo \in 1..480
           /\ vout.rec.peso = 0 \/ vout.rec.peso \in 60..400
           /\ vout.rec.calorias >= 0
    /\ vout.kind # "none" =>
           /\ (vin.tipo.k = "str" /\ Strip(vin.tipo.s) \notin ValidTypes) => vout.kind # "ok"
           /\ (vin.tiempo.k = "num" /\ (vin.tiempo.n < 2 \/ vin.tiempo.n >= 962))
                  => vout.kind # "ok"
           /\ (vin.tiempo.k \in {"missing", "null"}) => vout.kind # "ok"
           /\ (vin.peso.k = "num" /\ vin.peso.n # 0 /\ (vin.peso.n < 60 \/ vin.peso.n > 400))
                  => vout.kind # "ok"

C8_Witness ==
    /\ vout.kind = "ok"
    /\ vout.rec.tiempo = 480 /\ vin.tiempo = Num(961)
    /\ vout.rec.peso = 400
    /\ vout.rec.tipo = T_MMA /\ vin.tipo = Str(T_MMA_SP)

\* C9: whatever the presence and type of the values of the input mapping,
\* validate_session_data either returns a record or fails with a ValueError;
\* it never fails with another kind of error.
C9_OnlyValueError ==
    vout.kind \in {"none", "ok", "ValueError"}

\* C10: the calorias of a validated record equals MET(tipo) * w * tiempo / 60
\* rounded to the nearest integer, w = peso if peso > 0 else 70 (an exact
\* half may be rounded to even, as round() does, or up).
C10_CaloriesFormula ==
    vout.kind = "ok" =>
        LET w   == IF vout.rec.peso > 0 THEN vout.rec.peso ELSE 140
            num == MetOf(vout.rec.tipo) * w * vout.rec.tiempo
        IN  \/ vout.rec.calorias = RoundHalfEven(num, 120)
            \/ vout.rec.calorias = (num + 60) \div 120

\* the half of C10 that the code keeps: the outcome does not depend on a
\* calorias value sent by the client
C10_IgnoresClientCalorias ==
    vout.kind # "none" => vout = ValidateSessionData([vin EXCEPT !.calorias = Missing])

\* the example of the specification: Grappling, 90 min, 80 kg gives 1200
C10_Example ==
    (vout.kind = "ok" /\ vout.rec.tipo = T_GRAPPLING /\ vout.rec.tiempo = 90
        /\ vout.rec.peso = 160) => vout.rec.calorias = 1200

C10_ExampleReached ==
    vout.kind = "ok" /\ vout.rec.tipo = T_GRAPPLING /\ vout.rec.tiempo = 90
        /\ vout.rec.peso = 160 /\ vin.calorias = Num(19998)


----------------------------------------------------------------------------
(* Python float: IEEE-754 doubles.  The quotients that StatsService rounds *)
(* and compares are doubles; their arithmetic is computed here bit for bit, *)
(* each operation giving the double nearest to the exact result, ties to   *)
(* the even mantissa.                                                       *)

\* An unsigned integer below 2^71 as three limbs <<high, middle, low>> in
\* base 2^20, the two lower limbs below 2^20.
Limb == Pow2(20)

BigZero == <<0, 0, 0>>
BigOne  == <<0, 0, 1>>

\* carry propagation
BigCarry(b) ==
    LET c1  == b[3] \div Limb
        mid == b[2] + c1
    IN  <<b[1] + (mid \div Limb), mid % Limb, b[3] % Limb>>

BigAdd(a, b) == BigCarry(<<a[1] + b[1], a[2] + b[2], a[3] + b[3]>>)

\* a * k for a small factor k
BigMul(a, k) == BigCarry(<<a[1] * k, a[2] * k, a[3] * k>>)

BigLess(a, b) ==
    \/ a[1] < b[1]
    \/ a[1] = b[1] /\ a[2] < b[2]
    \/ a[1] = b[1] /\ a[2] = b[2] /\ a[3] < b[3]

\* a - b for a >= b
BigSub(a, b) ==
    LET w3 == IF a[3] < b[3] THEN 1 ELSE 0
        w2 == IF a[2] - w3 < b[2] THEN 1 ELSE 0
    IN  <<a[1] - b[1] - w2, a[2] - w3 - b[2] + w2 * Limb, a[3] - b[3] + w3 * Limb>>

\* floor(a / 2), and the bit it drops
BigHalf(a) ==
    <<a[1] \div 2, (a[2] + (a[1] % 2) * Limb) \div 2, (a[3] + (a[2] % 2) * Limb) \div 2>>

BigOdd(a) == a[3] % 2 = 1

\* a * 2^k
RECURSIVE BigShift(_, _)
BigShift(a, k) ==
    IF k <= 10 THEN BigMul(a, Pow2(k)) ELSE BigShift(BigMul(a, Pow2(10)), k - 10)

\* A double is sign * man * 2^exp with 2^52 <= man < 2^53, or man = 0.
FloatZero == [sign |-> 1, man |-> BigZero, exp |-> 0]

IsZero(x) == x.man = BigZero

\* an exact value man * 2^exp with 0 < man < 2^53, brought to 53 bits
RECURSIVE Normal(_, _, _)
Normal(sign, man, exp) ==
    IF man[1] >= Pow2(12) THEN [sign |-> sign, man |-> man, exp |-> exp]
    ELSE IF man[1] = 0 THEN Normal(sign, <<man[2], man[3], 0>>, exp - 20)
    ELSE IF man[1] < Pow2(6) THEN Normal(sign, BigMul(man, Pow2(6)), exp - 6)
    ELSE Normal(sign, BigMul(man, 2), exp - 1)

\* the double nearest to man * 2^exp, ties to the even mantissa; sticky says
\* that the exact value lies strictly above man * 2^exp
RECURSIVE Nearest(_, _, _, _)
Nearest(sign, man, exp, sticky) ==
    IF man[1] >= Pow2(14)
    THEN Nearest(sign, BigHalf(man), exp + 1, sticky \/ BigOdd(man))
    ELSE IF man[1] >= Pow2(13)
    THEN LET q  == BigHalf(man)
             up == BigOdd(man) /\ (sticky \/ BigOdd(q))
             r  == IF up THEN BigAdd(q, BigOne) ELSE q
         IN  IF r[1] >= Pow2(13)
             THEN [sign |-> sign, man |-> BigHalf(r), exp |-> exp + 2]
             ELSE [sign |-> sign, man |-> r, exp |-> exp + 1]
    ELSE IF man = BigZero THEN FloatZero
    ELSE Normal(sign, man, exp)

\* float(n) for an integer n, and float of n / 2
FromInt(n) ==
    IF n = 0 THEN FloatZero
    ELSE IF n < 0 THEN Normal(-1, BigCarry(<<0, 0, 0 - n>>), 0)
    ELSE Normal(1, BigCarry(<<0, 0, n>>), 0)

FromHalves(h) ==
    IF h = 0 THEN FloatZero
    ELSE IF h < 0 THEN Normal(-1, BigCarry(<<0, 0, 0 - h>>), -1)
    ELSE Normal(1, BigCarry(<<0, 0, h>>), -1)

\* one more bit of a quotient: s = <<quotient so far, remainder>>, remainder < den
DivideBit(s, den) ==
    LET twice == BigMul(s[2], 2)
    IN  IF BigLess(twice, den) THEN <<BigMul(s[1], 2), twice>>
        ELSE <<BigAdd(BigMul(s[1], 2), BigOne), BigSub(twice, den)>>

\* 6 * n more bits
RECURSIVE DivideBits(_, _, _)
DivideBits(s, den, n) ==
    IF n = 0 \/ s[2] = den THEN s      \* a remainder is below den
    ELSE DivideBits(DivideBit(DivideBit(DivideBit(DivideBit(DivideBit(DivideBit(
             s, den), den), den), den), den), den), den, n - 1)

\* x / y, y # 0
FloatDiv(x, y) ==
    IF IsZero(x) THEN FloatZero
    ELSE LET first == ~BigLess(x.man, y.man)
             qr    == DivideBits(<<IF first THEN BigOne ELSE BigZero,
                                   IF first THEN BigSub(x.man, y.man) ELSE x.man>>,
                                 y.man, 9)
         IN  Nearest(x.sign * y.sign, qr[1], x.exp - y.exp - 54, qr[2] # BigZero)

\* x * k for an integer k in 1..127
FloatMul(x, k) ==
    IF IsZero(x) THEN FloatZero
    ELSE Nearest(x.sign, BigMul(x.man, k), x.exp, FALSE)

\* x - y for x >= 0 and y >= 0 whose exponents differ by at most 17
FloatSub(x, y) ==
    IF IsZero(y) THEN x
    ELSE IF IsZero(x) THEN [y EXCEPT !.sign = -1]
    ELSE LET e  == IF x.exp < y.exp THEN x.exp ELSE y.exp
             mx == BigShift(x.man, x.exp - e)
             my == BigShift(y.man, y.exp - e)
         IN  IF mx = my THEN FloatZero
             ELSE IF BigLess(mx, my) THEN Nearest(-1, BigSub(my, mx), e, FALSE)
             ELSE Nearest(1, BigSub(mx, my), e, FALSE)

\* x < y
FloatLess(x, y) ==
    LET below(a, b) ==     \* a < b for a > 0, b > 0
            a.exp < b.exp \/ (a.exp = b.exp /\ BigLess(a.man, b.man))
    IN  IF IsZero(x) THEN ~IsZero(y) /\ y.sign = 1
        ELSE IF IsZero(y) THEN x.sign = -1
        ELSE IF x.sign # y.sign THEN x.sign = -1
        ELSE IF x.sign = 1 THEN below(x, y)
        ELSE below(y, x)

\* s = <<man, k, half, sticky>>: floor(man / 2^k), whether the last bit
\* dropped was set and whether a bit below it was
RECURSIVE Shifted(_)
Shifted(s) ==
    IF s[2] = 0 THEN s
    ELSE IF s[2] >= 20
    THEN Shifted(<<(<<0, s[1][1], s[1][2]>>), s[2] - 20, s[1][3] >= Limb \div 2,
                   s[4] \/ s[3] \/ s[1][3] % (Limb \div 2) # 0>>)
    ELSE Shifted(<<BigHalf(s[1]), s[2] - 1, BigOdd(s[1]), s[4] \/ s[3]>>)

\* round(x * k) for k in {1, 10}, |x| * k < 2^30: the integer nearest to the
\* exact value of the double, ties to even (float.__round__)
FloatRound(x, k) ==
    IF IsZero(x) THEN 0
    ELSE LET s == Shifted(<<BigMul(x.man, k), 0 - x.exp, FALSE, FALSE>>)
             i == s[1][2] * Limb + s[1][3]
         IN  x.sign * (IF s[3] /\ (s[4] \/ i % 2 = 1) THEN i + 1 ELSE i)

\* round(x * k), k in {1, 10}, for a double x computed in at most three
\* operations from operands whose exact quotient is num / den, den > 0.
\* x is within num/den * 2^-50 of num/den, and a num/den that is not halfway
\* between two results is at least 1 / (2 * k * den) away from halfway: for
\* num and den below 2^20 the result is the one nearest to num/den, and only
\* on an exact tie do the bits of x decide.
RoundOf(num, den, k, x) ==
    LET twice == 2 * k * num
    IN  IF twice % den = 0 /\ (twice \div den) % 2 = 1 THEN FloatRound(x, k)
        ELSE (twice + den) \div (2 * den)

\* round(a / b, 1) in tenths and round(a / b), for a and b given in halves
RoundedTenths(a, b) == RoundOf(a, b, 10, FloatDiv(FromHalves(a), FromHalves(b)))
RoundedUnits(a, b)  == RoundOf(a, b, 1, FloatDiv(FromHalves(a), FromHalves(b)))

\* round((a / b) * 100, 1) in tenths of a percent
Percentage(a, b) ==
    RoundOf(100 * a, b, 10, FloatMul(FloatDiv(FromHalves(a), FromHalves(b)), 100))

----------------------------------------------------------------------------
(* StatsService (mma_planner_V0.2/services/stats_service.py).  A session is *)
(* a mapping of JSON values; tiempo and calorias are numbers in halves, as  *)
(* everywhere in this module, and so are the totals built from them.  A     *)
(* figure that goes through round(x, 1) is held in tenths.                  *)

S_BAJA        == <<66, 97, 106, 97>>                                      \* "Baja"
S_NA          == <<78, 47, 65>>                                           \* "N/A"
S_DESCONOCIDO == <<68, 101, 115, 99, 111, 110, 111, 99, 105, 100, 111>>   \* "Desconocido"
T_YOGA        == <<89, 111, 103, 97>>                                     \* "Yoga"
F_FEB28       == <<50, 48, 50, 52, 45, 48, 50, 45, 50, 56>>               \* "2024-02-28"
F_FEB29       == <<50, 48, 50, 52, 45, 48, 50, 45, 50, 57>>               \* "2024-02-29"
F_MAR01       == <<50, 48, 50, 52, 45, 48, 51, 45, 48, 49>>               \* "2024-03-01"
F_MAR2        == <<50, 48, 50, 52, 45, 51, 45, 50>>                       \* "2024-3-2"
F_FEB30       == <<50, 48, 50, 52, 45, 48, 50, 45, 51, 48>>               \* "2024-02-30"

Max(a, b) == IF a > b THEN a ELSE b

RECURSIVE SumSeq(_)
\* sum(...) over a list of numbers
SumSeq(q) == IF Len(q) = 0 THEN 0 ELSE q[1] + SumSeq(Tail(q))

\* session.get('tiempo', 0), session.get('calorias', 0)
TiempoOf(s)   == Get(s.tiempo, Num(0)).n
CaloriasOf(s) == Get(s.calorias, Num(0)).n

\* session.get('tipo', 'Desconocido')
TipoOf(s) == Get(s.tipo, Str(S_DESCONOCIDO))

\* session.get('intensidad', 'Media')
IntensityOf(s) == Get(s.intensidad, Str(S_MEDIA))

\* sum(s.get('tiempo', 0) for s in ...), sum(s.get('calorias', 0) for s in ...)
TotalTime(sessions)     == SumSeq([i \in 1..Len(sessions) |-> TiempoOf(sessions[i])])
TotalCalories(sessions) == SumSeq([i \in 1..Len(sessions) |-> CaloriasOf(sessions[i])])

\* the keys of the defaultdict filled by the loop over the sessions, in
\* insertion order: each tipo at its first occurrence
TypeKeys(sessions) ==
    LET n      == Len(sessions)
        firsts == {i \in 1..n : \A j \in 1..(i - 1) : TipoOf(sessions[j]) # TipoOf(sessions[i])}
    IN  [p \in 1..Cardinality(firsts) |->
            TipoOf(sessions[CHOOSE i \in firsts : Cardinality({j \in firsts : j < i}) = p - 1])]

\* mutant: a row that takes in the first session of its tipo only
TypeRowFirstOnly(sessions, tipo) ==
    LET first == sessions[CHOOSE i \in 1..Len(sessions) :
                              /\ TipoOf(sessions[i]) = tipo
                              /\ \A j \in 1..(i - 1) : TipoOf(sessions[j]) # tipo]
    IN  [tipo |-> tipo, sessions |-> 1, total_time |-> TiempoOf(first),
         total_calories |-> CaloriasOf(first)]

\* the entry of type_stats for one tipo
TypeRow(sessions, tipo) ==
    LET OfType(s) == TipoOf(s) = tipo
        mine      == SelectSeq(sessions, OfType)
    IN  [tipo |-> tipo, sessions |-> Len(mine), total_time |-> TotalTime(mine),
         total_calories |-> TotalCalories(mine),
         avg_time |-> RoundedTenths(TotalTime(mine), 2 * Len(mine)),
         avg_calories |-> RoundedUnits(TotalCalories(mine), 2 * Len(mine)),
         percentage |-> Percentage(Len(mine), Len(sessions))]

\* result.sort(key=lambda x: x['sessions'], reverse=True): stable, rows with
\* the same count keep their order
SortBySessionsDesc(rows) ==
    LET n == Len(rows)
        rank(i) == Cardinality({j \in 1..n : rows[j].sessions > rows[i].sessions})
                   + Cardinality({j \in 1..(i - 1) : rows[j].sessions = rows[i].sessions})
                   + 1
    IN  [p \in 1..n |-> rows[CHOOSE i \in 1..n : rank(i) = p]]

\* StatsService.calculate_stats_by_type
CalculateStatsByType(sessions) ==
    IF Len(sessions) = 0 THEN <<>>
    ELSE LET keys == TypeKeys(sessions)
         IN  SortBySessionsDesc([p \in 1..Len(keys) |-> TypeRow(sessions, keys[p])])

\* mutant: the last key, in insertion order, that has the largest count
MostFrequentTypeLast(sessions) ==
    LET keys     == TypeKeys(sessions)
        count(p) == TypeRow(sessions, keys[p]).sessions
        best     == CHOOSE p \in 1..Len(keys) :
                        /\ \A q \in 1..Len(keys) : count(q) <= count(p)
                        /\ \A q \in (p + 1)..Len(keys) : count(q) < count(p)
    IN  [tipo |-> keys[best], count |-> count(best)]

\* max(type_counts, key=type_counts.get): the first key, in insertion order,
\* that has the largest count
MostFrequentType(sessions) ==
    LET keys     == TypeKeys(sessions)
        count(p) == TypeRow(sessions, keys[p]).sessions
        best     == CHOOSE p \in 1..Len(keys) :
                        /\ \A q \in 1..Len(keys) : count(q) <= count(p)
                        /\ \A q \in 1..(p - 1) : count(q) < count(p)
    IN  [tipo |-> keys[best], count |-> count(best)]

\* a session whose fecha is truthy and is accepted by strptime('%Y-%m-%d');
\* the fecha of a session is a string, null or absent
HasDate(s) ==
    LET fecha == Get(s.fecha, Str(<<>>))
    IN  Truthy(fecha) /\ fecha.k = "str" /\ ParseDate(fecha.s) # NoDate

\* the date of a session that has one, as a day number
DateOf(s) == ToOrdinal(ParseDate(s.fecha.s))

\* unique_dates: the set of the dates of the sessions that have one
UniqueDates(sessions) ==
    {DateOf(sessions[i]) : i \in {j \in 1..Len(sessions) : HasDate(sessions[j])}}

RECURSIVE Sorted(_)
\* sorted(unique_dates)
Sorted(dates) ==
    IF dates = {} THEN <<>>
    ELSE LET first == CHOOSE d \in dates : \A e \in dates : d <= e
         IN  <<first>> \o Sorted(dates \ {first})

\* sorted(unique_dates, reverse=True)
SortedReverse(dates) ==
    LET up == Sorted(dates) IN [i \in 1..Len(up) |-> up[Len(up) + 1 - i]]

\* mutant: a streak is kept only by a session of today
KeepsStreakTodayOnly(most_recent, current_date) == most_recent = current_date

\* sorted_dates[0] in [current_date, current_date - timedelta(days=1)]
KeepsStreak(most_recent, current_date) == most_recent \in {current_date, current_date - 1}

RECURSIVE CurrentStreakLoop(_, _, _, _)
\* the for loop of _calculate_current_streak from position i on
CurrentStreakLoop(sorted_dates, i, expected_date, streak) ==
    IF i > Len(sorted_dates) THEN streak
    ELSE IF sorted_dates[i] = expected_date
    THEN CurrentStreakLoop(sorted_dates, i + 1, sorted_dates[i] - 1, streak + 1)
    ELSE streak

\* mutant: every date counts once a streak is kept, gaps or not
CurrentStreakAnyGap(sessions, current_date) ==
    LET unique_dates == UniqueDates(sessions)
    IN  IF unique_dates = {} THEN 0
        ELSE IF ~KeepsStreak(SortedReverse(unique_dates)[1], current_date) THEN 0
        ELSE Cardinality(unique_dates)

\* StatsService._calculate_current_streak
CalculateCurrentStreak(sessions, current_date) ==
    LET unique_dates == UniqueDates(sessions)
        sorted_dates == SortedReverse(unique_dates)
    IN  IF Len(sessions) = 0 THEN 0
        ELSE IF unique_dates = {} THEN 0
        ELSE IF ~KeepsStreak(sorted_dates[1], current_date) THEN 0
        ELSE CurrentStreakLoop(sorted_dates, 1, sorted_dates[1], 0)

RECURSIVE LongestStreakLoop(_, _, _, _)
\* the for loop of _calculate_longest_streak from index i on
LongestStreakLoop(sorted_dates, i, current_streak, max_streak) ==
    IF i > Len(sorted_dates) THEN max_streak
    ELSE IF sorted_dates[i] = sorted_dates[i - 1] + 1
    THEN LongestStreakLoop(sorted_dates, i + 1, current_streak + 1,
                           Max(max_streak, current_streak + 1))
    ELSE LongestStreakLoop(sorted_dates, i + 1, 1, max_streak)

\* mutant: the length of the earliest run of consecutive dates
LongestStreakFirstRun(sessions) ==
    LET dates == UniqueDates(sessions)
        first == CHOOSE d \in dates : \A e \in dates : d <= e
    IN  IF dates = {} THEN 0
        ELSE CHOOSE k \in 1..Cardinality(dates) :
                 /\ \A i \in 0..(k - 1) : first + i \in dates
                 /\ first + k \notin dates

\* StatsService._calculate_longest_streak
CalculateLongestStreak(sessions) ==
    LET unique_dates == UniqueDates(sessions)
        sorted_dates == Sorted(unique_dates)
    IN  IF Len(sessions) = 0 THEN 0
        ELSE IF unique_dates = {} THEN 0
        ELSE IF Len(sorted_dates) = 1 THEN 1
        ELSE LongestStreakLoop(sorted_dates, 2, 1, 1)

\* mutant: a label outside the three levels is counted as Media
IntensityLevelLenient(sessions, level) ==
    LET OfLevel(s) == IntensityOf(s) = Str(level)
                      \/ (level = S_MEDIA /\ IntensityOf(s) \notin {Str(S_BAJA), Str(S_ALTA)})
        mine       == SelectSeq(sessions, OfLevel)
    IN  [count |-> Len(mine), total_time |-> TotalTime(mine),
         total_calories |-> TotalCalories(mine)]

\* the entries of intensity_counts, intensity_time and intensity_calories
\* read for one of 'Baja', 'Media', 'Alta'
IntensityLevel(sessions, level) ==
    LET OfLevel(s) == IntensityOf(s) = Str(level)
        mine       == SelectSeq(sessions, OfLevel)
    IN  [count |-> Len(mine), total_time |-> TotalTime(mine),
         total_calories |-> TotalCalories(mine)]

\* the keys of intensity_counts, in insertion order: each label at its first
\* occurrence, whatever the label
IntensityKeys(sessions) ==
    LET n      == Len(sessions)
        firsts == {i \in 1..n :
                      \A j \in 1..(i - 1) : IntensityOf(sessions[j]) # IntensityOf(sessions[i])}
    IN  [p \in 1..Cardinality(firsts) |->
            IntensityOf(sessions[CHOOSE i \in firsts :
                                     Cardinality({j \in firsts : j < i}) = p - 1])]

\* the entries of intensity_counts and intensity_time under one key
IntensityEntry(sessions, key) ==
    LET OfKey(s) == IntensityOf(s) = key
        mine     == SelectSeq(sessions, OfKey)
    IN  [count |-> Len(mine), total_time |-> TotalTime(mine)]

\* total_sessions = sum(intensity_counts.values()) and
\* total_time = sum(intensity_time.values())
IntensityTotals(sessions) ==
    LET keys == IntensityKeys(sessions)
    IN  [sessions |-> SumSeq([p \in 1..Len(keys) |-> IntensityEntry(sessions, keys[p]).count]),
         time |-> SumSeq([p \in 1..Len(keys) |->
                             IntensityEntry(sessions, keys[p]).total_time])]

\* result[intensity] for one of 'Baja', 'Media', 'Alta'
IntensityResult(sessions, level) ==
    LET entry == IntensityLevel(sessions, level)
        total == IntensityTotals(sessions)
    IN  [count |-> entry.count,
         percentage |-> IF total.sessions > 0
                        THEN Percentage(entry.count, total.sessions) ELSE 0,
         total_time |-> entry.total_time,
         time_percentage |-> IF total.time > 0
                             THEN Percentage(entry.total_time, total.time) ELSE 0,
         total_calories |-> entry.total_calories,
         avg_time |-> IF entry.count > 0
                      THEN RoundedTenths(entry.total_time, 2 * entry.count) ELSE 0]

\* StatsService._calculate_intensity_stats
CalculateIntensityStats(sessions) ==
    [Baja  |-> IntensityResult(sessions, S_BAJA),
     Media |-> IntensityResult(sessions, S_MEDIA),
     Alta  |-> IntensityResult(sessions, S_ALTA)]

\* one window of _calculate_recent_activity: the sessions with a date on or
\* after now - timedelta(days)
RecentWindow(sessions, current_date, days) ==
    LET Recent(s) == HasDate(s) /\ DateOf(s) >= current_date - days
        mine      == SelectSeq(sessions, Recent)
    IN  [sessions |-> Len(mine), total_time |-> TotalTime(mine),
         total_calories |-> TotalCalories(mine),
         avg_per_day |-> RoundedTenths(2 * Len(mine), 2 * days)]

\* StatsService._calculate_recent_activity
CalculateRecentActivity(sessions, current_date) ==
    [last_7_days  |-> RecentWindow(sessions, current_date, 7),
     last_30_days |-> RecentWindow(sessions, current_date, 30)]

\* StatsService._calculate_weekly_average.  weeks = max(total_days / 7, 1) is
\* the double of sevenths / 7.
CalculateWeeklyAverage(sessions) ==
    LET valid_dates == UniqueDates(sessions)
        min_date    == CHOOSE d \in valid_dates : \A e \in valid_dates : d <= e
        max_date    == CHOOSE d \in valid_dates : \A e \in valid_dates : e <= d
        total_days  == max_date - min_date + 1
        sevenths    == Max(total_days, 7)
        weeks       == IF total_days <= 7 THEN FromInt(1)
                       ELSE FloatDiv(FromInt(total_days), FromInt(7))
        total_time     == TotalTime(sessions)
        total_calories == TotalCalories(sessions)
    IN  IF Len(sessions) = 0 \/ valid_dates = {}
        THEN [sessions |-> 0, time |-> 0, calories |-> 0]
        ELSE [sessions |-> RoundOf(7 * Len(sessions), sevenths, 10,
                                   FloatDiv(FromInt(Len(sessions)), weeks)),
              time |-> RoundOf(7 * total_time, 2 * sevenths, 10,
                               FloatDiv(FromHalves(total_time), weeks)),
              calories |-> RoundOf(7 * total_calories, 2 * sevenths, 1,
                                   FloatDiv(FromHalves(total_calories), weeks)),
              weeks_analyzed |-> RoundOf(sevenths, 7, 10, weeks)]

RECURSIVE Decimal(_)
\* str(n) for n >= 0
Decimal(n) == IF n < 10 THEN <<48 + n>> ELSE Decimal(n \div 10) \o <<48 + (n % 10)>>

\* f"{date_obj.year}-{date_obj.month:02d}"
MonthKey(ymd) == Decimal(ymd[1]) \o <<45, 48 + (ymd[2] \div 10), 48 + (ymd[2] % 10)>>

\* calendar.month_name
MonthNames ==
    <<"January", "February", "March", "April", "May", "June", "July", "August",
      "September", "October", "November", "December">>

\* the keys of monthly_stats, in insertion order: the month of each session
\* that has a date, at its first occurrence
MonthKeys(sessions) ==
    LET n      == Len(sessions)
        KeyOf(i) == MonthKey(ParseDate(sessions[i].fecha.s))
        dated  == {i \in 1..n : HasDate(sessions[i])}
        firsts == {i \in dated : \A j \in dated : j < i => KeyOf(j) # KeyOf(i)}
    IN  [p \in 1..Cardinality(firsts) |->
            ParseDate(sessions[CHOOSE i \in firsts :
                                   Cardinality({j \in firsts : j < i}) = p - 1].fecha.s)]

\* the entry of monthly_stats for the month of a date, as the second loop
\* leaves it
MonthRow(sessions, ymd) ==
    LET InMonth(s) == HasDate(s) /\ MonthKey(ParseDate(s.fecha.s)) = MonthKey(ymd)
        mine       == SelectSeq(sessions, InMonth)
        keys       == TypeKeys(mine)
    IN  [month |-> MonthKey(ymd),
         month_name |-> <<MonthNames[ymd[2]], ymd[1]>>,
         year |-> ymd[1], month_number |-> ymd[2],
         sessions |-> Len(mine), total_time |-> TotalTime(mine),
         total_calories |-> TotalCalories(mine),
         types |-> [p \in 1..Len(keys) |->
                       [tipo |-> keys[p], count |-> TypeRow(mine, keys[p]).sessions]],
         avg_session_time |-> RoundedTenths(TotalTime(mine), 2 * Len(mine)),
         most_common_type |-> MostFrequentType(mine).tipo,
         sessions_per_week |->
             RoundOf(7 * Len(mine), 30, 10,
                     FloatMul(FloatDiv(FromInt(Len(mine)), FromInt(30)), 7))]

\* result.sort(key=lambda x: x['month'], reverse=True): by the month key as
\* a string; no two rows have the same key
SortByMonthDesc(rows) ==
    LET n == Len(rows)
        rank(i) == Cardinality({j \in 1..n : StrLess(rows[i].month, rows[j].month)}) + 1
    IN  [p \in 1..n |-> rows[CHOOSE i \in 1..n : rank(i) = p]]

\* StatsService.calculate_monthly_stats
CalculateMonthlyStats(sessions) ==
    IF Len(sessions) = 0 THEN <<>>
    ELSE LET keys == MonthKeys(sessions)
         IN  SortByMonthDesc([p \in 1..Len(keys) |-> MonthRow(sessions, keys[p])])

\* mutant: a level of the empty structure that counts one session
EmptyLevelCountOne ==
    [count |-> 1, percentage |-> 0, total_time |-> 0, time_percentage |-> 0,
     total_calories |-> 0, avg_time |-> 0]

\* one level of intensity_distribution in _empty_stats
EmptyLevel ==
    [count |-> 0, percentage |-> 0, total_time |-> 0, time_percentage |-> 0,
     total_calories |-> 0, avg_time |-> 0]

\* one window of recent_activity in _empty_stats
EmptyWindow == [sessions |-> 0, total_time |-> 0, total_calories |-> 0, avg_per_day |-> 0]

\* StatsService._empty_stats
EmptyStats ==
    [total_sessions |-> 0, total_time |-> 0, total_time_hours |-> 0, total_calories |-> 0,
     avg_session_time |-> 0, avg_calories_per_session |-> 0,
     most_frequent_type |-> Str(S_NA), most_frequent_count |-> 0,
     by_type |-> <<>>,
     recent_activity |-> [last_7_days |-> EmptyWindow, last_30_days |-> EmptyWindow],
     weekly_average |-> [sessions |-> 0, time |-> 0, calories |-> 0, weeks_analyzed |-> 0],
     monthly_totals |-> <<>>,
     current_streak |-> 0, longest_streak |-> 0,
     intensity_distribution |-> [Baja |-> EmptyLevel, Media |-> EmptyLevel, Alta |-> EmptyLevel]]

\* StatsService.calculate_comprehensive_stats, with datetime.now().date()
\* passed in
CalculateComprehensiveStats(sessions, current_date) ==
    IF Len(sessions) = 0 THEN EmptyStats
    ELSE [total_sessions |-> Len(sessions),
          total_time |-> TotalTime(sessions),
          total_time_hours |-> RoundedTenths(TotalTime(sessions), 120),
          total_calories |-> TotalCalories(sessions),
          avg_session_time |-> RoundedTenths(TotalTime(sessions), 2 * Len(sessions)),
          avg_calories_per_session |->
              RoundedUnits(TotalCalories(sessions), 2 * Len(sessions)),
          most_frequent_type |-> MostFrequentType(sessions).tipo,
          most_frequent_count |-> MostFrequentType(sessions).count,
          by_type |-> CalculateStatsByType(sessions),
          recent_activity |-> CalculateRecentActivity(sessions, current_date),
          weekly_average |-> CalculateWeeklyAverage(sessions),
          monthly_totals |-> CalculateMonthlyStats(sessions),
          current_streak |-> CalculateCurrentStreak(sessions, current_date),
          longest_streak |-> CalculateLongestStreak(sessions),
          intensity_distribution |-> CalculateIntensityStats(sessions)]

\* StatsService.get_performance_trends(sessions, days) on the day current_date.
\* The averages and the change are doubles; change_percentage and the two
\* averages of the result are in tenths.
GetPerformanceTrends(sessions, days, current_date) ==
    LET cutoff_date     == current_date - days
        Recent(s)       == HasDate(s) /\ DateOf(s) >= cutoff_date
        recent_sessions == SelectSeq(sessions, Recent)
        mid_point       == Len(recent_sessions) \div 2
        first_half      == SubSeq(recent_sessions, 1, mid_point)
        second_half     == SubSeq(recent_sessions, mid_point + 1, Len(recent_sessions))
        avg_time_first  == FloatDiv(FromHalves(TotalTime(first_half)),
                                    FromInt(Len(first_half)))
        avg_time_second == FloatDiv(FromHalves(TotalTime(second_half)),
                                    FromInt(Len(second_half)))
        change_percentage ==
            FloatMul(FloatDiv(FloatSub(avg_time_second, avg_time_first), avg_time_first),
                     100)
    IN  IF Len(sessions) = 0 THEN [trend |-> "stable", change_percentage |-> 0]
        ELSE IF Len(recent_sessions) < 4
        THEN [trend |-> "insufficient_data", change_percentage |-> 0]
        ELSE IF IsZero(avg_time_first) THEN [trend |-> "stable", change_percentage |-> 0]
        ELSE [trend |-> IF FloatLess(FromInt(10), change_percentage) THEN "improving"
                        ELSE IF FloatLess(change_percentage, FromInt(-10)) THEN "declining"
                        ELSE "stable",
              change_percentage      |-> FloatRound(change_percentage, 10),
              avg_time_first_period  |-> FloatRound(avg_time_first, 10),
              avg_time_second_period |-> FloatRound(avg_time_second, 10)]

\* the sessions a caller hands over: three consecutive days across the leap
\* day, a date without zero padding, a date that does not exist, sessions
\* without fecha, tipo, tiempo or intensidad, and a label outside the levels
StatsSessions ==
    {[fecha |-> Str(F_FEB28), tipo |-> Str(T_MMA), tiempo |-> Num(120),
      calorias |-> Num(1400), intensidad |-> Str(S_ALTA)],
     [fecha |-> Str(F_FEB29), tipo |-> Str(T_JUDO), tiempo |-> Num(90),
      calorias |-> Num(900), intensidad |-> Str(S_MEDIA)],
     [fecha |-> Str(F_MAR01), tipo |-> Str(T_MMA), tiempo |-> Num(60),
      calorias |-> Num(600), intensidad |-> Missing],
     [fecha |-> Str(F_MAR2), tipo |-> Missing, tiempo |-> Num(180),
      calorias |-> Num(0), intensidad |-> Str(S_BAJA)],
     [fecha |-> Str(F_FEB30), tipo |-> Str(T_JUDO), tiempo |-> Num(120),
      calorias |-> Num(1000), intensidad |-> Str(S_EXTREMA)],
     [fecha |-> Missing, tipo |-> Str(S_DESCONOCIDO), tiempo |-> Missing,
      calorias |-> Missing, intensidad |-> Null],
     [fecha |-> Str(<<>>), tipo |-> Str(T_YOGA), tiempo |-> Num(40),
      calorias |-> Num(200), intensidad |-> Str(S_ALTA)]}

\* the caller puts one more session on the list it will hand over
StatsAdd(s) ==
    /\ Len(sin) < MaxList
    /\ sin' = Append(sin, s)
    /\ UNCHANGED <<today, sout>>

\* midnight passes
NextDay ==
    /\ sout.kind = "none"
    /\ today < FirstDay + MaxDays
    /\ today' = today + 1
    /\ UNCHANGED <<sin, sout>>

\* calculate_comprehensive_stats(sin) is called and returns
CalculateStats ==
    /\ sout.kind = "none"
    /\ sout' = [kind |-> "stats", value |-> CalculateComprehensiveStats(sin, today)]
    /\ UNCHANGED <<sin, today>>

\* the caller has taken the result
StatsReturn ==
    /\ sout.kind = "stats"
    /\ sin' = <<>>
    /\ sout' = NoStats
    /\ UNCHANGED today

StatsNext ==
    \/ (sout.kind = "none" /\ \E s \in StatsSessions : StatsAdd(s))
           /\ UNCHANGED <<storeVars, raceVars, valVars, appVars, advVars, authVars>>
    \/ NextDay /\ UNCHANGED <<storeVars, raceVars, valVars, appVars, advVars, authVars>>
    \/ CalculateStats /\ UNCHANGED <<storeVars, raceVars, valVars, appVars, advVars, authVars>>
    \/ StatsReturn /\ UNCHANGED <<storeVars, raceVars, valVars, appVars, advVars, authVars>>

StatsSpec == Init /\ [][StatsNext]_vars

F_Y999 == <<48, 57, 57, 57, 45, 49, 50, 45, 51, 49>>                      \* "0999-12-31"

\* the sessions of RollupSpec: two types in March 2024, one of them written
\* without zero padding, a session of February, one of the year 999 and one
\* whose fecha names a day that does not exist
RollupSessions ==
    {[fecha |-> Str(F_MAR01), tipo |-> Str(T_MMA), tiempo |-> Num(120),
      calorias |-> Num(1400), intensidad |-> Str(S_ALTA)],
     [fecha |-> Str(F_MAR2), tipo |-> Str(T_JUDO), tiempo |-> Num(90),
      calorias |-> Num(900), intensidad |-> Str(S_MEDIA)],
     [fecha |-> Str(F_FEB29), tipo |-> Str(T_JUDO), tiempo |-> Num(91),
      calorias |-> Num(601), intensidad |-> Missing],
     [fecha |-> Str(F_Y999), tipo |-> Str(T_MMA), tiempo |-> Num(60),
      calorias |-> Num(500), intensidad |-> Str(S_BAJA)],
     [fecha |-> Str(F_FEB30), tipo |-> Str(T_JUDO), tiempo |-> Num(120),
      calorias |-> Num(1000), intensidad |-> Str(S_EXTREMA)]}

\* the caller puts one more session on the list it will hand over
RollupAdd(s) ==
    /\ Len(sin) < MaxRollup
    /\ sin' = Append(sin, s)
    /\ UNCHANGED <<today, sout>>

\* the caller has taken the result
RollupReturn ==
    /\ sout.kind # "none"
    /\ sin' = <<>>
    /\ sout' = NoStats
    /\ UNCHANGED today

RollupNext ==
    \/ (sout.kind = "none" /\ \E s \in RollupSessions : RollupAdd(s))
           /\ UNCHANGED <<storeVars, raceVars, valVars, appVars, advVars, authVars>>
    \/ CalculateStats /\ UNCHANGED <<storeVars, raceVars, valVars, appVars, advVars, authVars>>
    \/ RollupReturn /\ UNCHANGED <<storeVars, raceVars, valVars, appVars, advVars, authVars>>

RollupSpec == Init /\ [][RollupNext]_vars

\* the sessions of TrendSpec: 40 and 30 minutes on the first day, a session
\* of the day before without tiempo, and one of the year 999
TrendSessions ==
    {[fecha |-> Str(F_FEB29), tipo |-> Str(T_MMA), tiempo |-> Num(80),
      calorias |-> Num(1400), intensidad |-> Str(S_ALTA)],
     [fecha |-> Str(F_FEB29), tipo |-> Str(T_JUDO), tiempo |-> Num(60),
      calorias |-> Num(900), intensidad |-> Str(S_MEDIA)],
     [fecha |-> Str(F_FEB28), tipo |-> Str(T_JUDO), tiempo |-> Missing,
      calorias |-> Num(600), intensidad |-> Missing],
     [fecha |-> Str(F_Y999), tipo |-> Str(T_MMA), tiempo |-> Num(80),
      calorias |-> Num(500), intensidad |-> Str(S_BAJA)]}

\* the windows a caller asks for: today only, and the default
TrendDays == {0, 30}

\* the caller puts one more session on the list it will hand over
TrendAdd(s) ==
    /\ Len(sin) < MaxTrend
    /\ sin' = Append(sin, s)
    /\ UNCHANGED <<today, sout>>

\* get_performance_trends(sin, days) is called and returns
GetTrends(days) ==
    /\ sout.kind = "none"
    /\ sout' = [kind |-> "trends",
                value |-> [days |-> days,
                           trends |-> GetPerformanceTrends(sin, days, today)]]
    /\ UNCHANGED <<sin, today>>

\* the caller has taken the result
TrendReturn ==
    /\ sout.kind = "trends"
    /\ sin' = <<>>
    /\ sout' = NoStats
    /\ UNCHANGED today

TrendNext ==
    \/ (sout.kind = "none" /\ \E s \in TrendSessions : TrendAdd(s))
           /\ UNCHANGED <<storeVars, raceVars, valVars, appVars, advVars, authVars>>
    \/ (\E days \in TrendDays : GetTrends(days))
           /\ UNCHANGED <<storeVars, raceVars, valVars, appVars, advVars, authVars>>
    \/ TrendReturn /\ UNCHANGED <<storeVars, raceVars, valVars, appVars, advVars, authVars>>

TrendSpec == Init /\ [][TrendNext]_vars


----------------------------------------------------------------------------
(* Claims about StatsService *)

\* the three levels of an intensity_distribution
LevelsOf(dist) == {dist.Baja, dist.Media, dist.Alta}

\* C11: calculate_comprehensive_stats on an empty list does not raise and
\* returns the fixed zero structure: every count, total, average and
\* percentage is 0, by_type and monthly_totals are empty, both streaks are
\* 0 and intensity_distribution has the keys Baja, Media and Alta, each
\* with all-zero fields.
C11_EmptyStats ==
    (sout.kind = "stats" /\ sin = <<>>) =>
        LET st == sout.value
        IN  /\ st.total_sessions = 0 /\ st.total_time = 0 /\ st.total_time_hours = 0
            /\ st.total_calories = 0 /\ st.avg_session_time = 0
            /\ st.avg_calories_per_session = 0 /\ st.most_frequent_count = 0
            /\ st.by_type = <<>> /\ st.monthly_totals = <<>>
            /\ st.current_streak = 0 /\ st.longest_streak = 0
            /\ \A w \in {st.recent_activity.last_7_days, st.recent_activity.last_30_days} :
                   w.sessions = 0 /\ w.total_time = 0 /\ w.total_calories = 0
                   /\ w.avg_per_day = 0
            /\ st.weekly_average.sessions = 0 /\ st.weekly_average.time = 0
            /\ st.weekly_average.calories = 0 /\ st.weekly_average.weeks_analyzed = 0
            /\ DOMAIN st.intensity_distribution = {"Baja", "Media", "Alta"}
            /\ \A l \in LevelsOf(st.intensity_distribution) :
                   l.count = 0 /\ l.percentage = 0 /\ l.total_time = 0
                   /\ l.time_percentage = 0 /\ l.total_calories = 0 /\ l.avg_time = 0

C11_Witness ==
    /\ sout.kind = "stats"
    /\ sin = <<>>
    /\ today > FirstDay

\* C12: for a non-empty list, by_type has exactly one row per distinct tipo
\* of the list (a session without tipo counting as 'Desconocido'), the
\* sessions counts of the rows sum to total_sessions, the number of
\* sessions, and their total_time values sum to total_time, the sum of the
\* tiempo of all sessions.
C12_ByTypeSums ==
    (sout.kind = "stats" /\ sin # <<>>) =>
        LET st   == sout.value
            rows == st.by_type
        IN  /\ {rows[i].tipo : i \in 1..Len(rows)} = {TipoOf(sin[j]) : j \in 1..Len(sin)}
            /\ \A i, j \in 1..Len(rows) : i # j => rows[i].tipo # rows[j].tipo
            /\ SumSeq([i \in 1..Len(rows) |-> rows[i].sessions]) = st.total_sessions
            /\ st.total_sessions = Len(sin)
            /\ SumSeq([i \in 1..Len(rows) |-> rows[i].total_time]) = st.total_time
            /\ st.total_time = SumSeq([j \in 1..Len(sin) |-> TiempoOf(sin[j])])

C12_Witness ==
    /\ sout.kind = "stats"
    /\ Len(sin) = 3
    /\ Len(sout.value.by_type) = 2
    /\ \E j \in 1..3 : sin[j].tipo = Missing
    /\ sout.value.by_type[1].sessions = 2

\* C13: for every list and every value of today, current_streak is at most
\* longest_streak.
C13_CurrentAtMostLongest ==
    sout.kind = "stats" => sout.value.current_streak <= sout.value.longest_streak

C13_Witness ==
    /\ sout.kind = "stats"
    /\ sout.value.current_streak = 1
    /\ sout.value.longest_streak = 2
    /\ Cardinality(UniqueDates(sin)) = 3

\* the most recent of a non-empty set of dates
MostRecent(dates) == CHOOSE d \in dates : \A e \in dates : e <= d

\* the number of consecutive calendar days of the set counted backward from d
RunBackFrom(dates, d) ==
    CHOOSE k \in 0..Cardinality(dates) :
        /\ \A i \in 0..(k - 1) : d - i \in dates
        /\ d - k \notin dates

\* C14: over the deduplicated dates of the sessions, current_streak is the
\* number of consecutive calendar days counted backward from the most
\* recent date when that date is today or yesterday, and 0 when it is more
\* than one day before today.
C14_CurrentStreak ==
    (sout.kind = "stats" /\ UniqueDates(sin) # {}) =>
        LET dates == UniqueDates(sin)
            top   == MostRecent(dates)
        IN  /\ top \in {today, today - 1} =>
                   sout.value.current_streak = RunBackFrom(dates, top)
            /\ top < today - 1 => sout.value.current_streak = 0

\* two sessions of the same day and one of the day before, the last of
\* them yesterday
C14_Witness ==
    /\ sout.kind = "stats"
    /\ Len(sin) = 3
    /\ Cardinality(UniqueDates(sin)) = 2
    /\ MostRecent(UniqueDates(sin)) = today - 1
    /\ sout.value.current_streak = 2

\* the length of the longest run of calendar-consecutive dates of a set
LongestRun(dates) ==
    CHOOSE k \in 0..Cardinality(dates) :
        /\ k > 0 => \E d \in dates : \A i \in 0..(k - 1) : d + i \in dates
        /\ ~\E d \in dates : \A i \in 0..k : d + i \in dates

\* C15 as stated: longest_streak is the length of the longest run of
\* calendar-consecutive dates in the deduplicated dates, and it is at least
\* 1 for every non-empty list.
C15_LongestStreak ==
    (sout.kind = "stats" /\ sin # <<>>) =>
        /\ sout.value.longest_streak = LongestRun(UniqueDates(sin))
        /\ sout.value.longest_streak >= 1

\* C15 amended: longest_streak is the length of the longest run of
\* calendar-consecutive dates in the deduplicated dates; it is at least 1
\* for every list with a session whose fecha parses, and 0 for a list
\* without one.
C15_LongestStreakOfDated ==
    sout.kind = "stats" =>
        /\ sout.value.longest_streak = LongestRun(UniqueDates(sin))
        /\ (\E j \in 1..Len(sin) : HasDate(sin[j])) => sout.value.longest_streak >= 1
        /\ (\A j \in 1..Len(sin) : ~HasDate(sin[j])) => sout.value.longest_streak = 0

\* a day alone, a gap, then two days in a row
C15_Witness ==
    /\ sout.kind = "stats"
    /\ Cardinality(UniqueDates(sin)) = 3
    /\ sout.value.longest_streak = 2
    /\ MostRecent(UniqueDates(sin)) - 1 \in UniqueDates(sin)

\* the three canonical labels
Canonical == {Str(S_BAJA), Str(S_MEDIA), Str(S_ALTA)}

\* C16: the counts of Baja, Media and Alta sum to at most total_sessions,
\* and to total_sessions only if the intensidad of every session (Media for
\* a session that has none) is one of the three labels.
C16_IntensityCounts ==
    (sout.kind = "stats" /\ sin # <<>>) =>
        LET dist  == sout.value.intensity_distribution
            total == dist.Baja.count + dist.Media.count + dist.Alta.count
        IN  /\ total <= sout.value.total_sessions
            /\ total = sout.value.total_sessions
                   <=> \A j \in 1..Len(sin) : IntensityOf(sin[j]) \in Canonical

C16_Witness ==
    /\ sout.kind = "stats"
    /\ Len(sin) = 3
    /\ \E j \in 1..3 : sin[j].intensidad = Str(S_EXTREMA)
    /\ \E j \in 1..3 : sin[j].intensidad = Missing
    /\ sout.value.intensity_distribution.Media.count = 1
    /\ sout.value.intensity_distribution.Alta.count = 1

\* C21: in intensity_distribution a session whose intensidad is outside
\* {Baja, Media, Alta} is counted in none of the three buckets and is left
\* out of the totals that percentage and time_percentage divide by, so the
\* percentages are taken over the sessions with a canonical label only.
C21_CanonicalDenominator ==
    (sout.kind = "stats" /\ sin # <<>>) =>
        LET IsCanonical(s) == IntensityOf(s) \in Canonical
            counted        == SelectSeq(sin, IsCanonical)
            dist           == sout.value.intensity_distribution
        IN  /\ dist.Baja.count + dist.Media.count + dist.Alta.count = Len(counted)
            /\ \A l \in LevelsOf(dist) :
                   /\ l.percentage = IF Len(counted) > 0
                                     THEN Percentage(l.count, Len(counted)) ELSE 0
                   /\ l.time_percentage = IF TotalTime(counted) > 0
                                          THEN Percentage(l.total_time, TotalTime(counted))
                                          ELSE 0

\* what the code divides by: every session of the list, whatever its label
C21_DenominatorIsAllSessions ==
    (sout.kind = "stats" /\ sin # <<>>) =>
        \A l \in LevelsOf(sout.value.intensity_distribution) :
            /\ l.percentage = Percentage(l.count, Len(sin))
            /\ l.time_percentage = IF TotalTime(sin) > 0
                                   THEN Percentage(l.total_time, TotalTime(sin)) ELSE 0

\* one session of 60 minutes labelled Alta and one labelled Extrema: Alta
\* is reported as 50.0 % of the sessions and of the time
C21_Example ==
    /\ sout.kind = "stats"
    /\ Len(sin) = 2
    /\ sin[1].intensidad = Str(S_ALTA) /\ sin[1].tiempo = Num(120)
    /\ sin[2].intensidad = Str(S_EXTREMA) /\ sin[2].tiempo = Num(120)
    /\ sout.value.intensity_distribution.Alta.count = 1
    /\ sout.value.intensity_distribution.Alta.percentage = 500
    /\ sout.value.intensity_distribution.Alta.time_percentage = 500

\* the number of sessions of a tipo, and the largest such number
CountOf(sessions, tipo) == Cardinality({i \in 1..Len(sessions) : TipoOf(sessions[i]) = tipo})
TopCount(sessions) ==
    CHOOSE n \in 1..Len(sessions) :
        /\ \E i \in 1..Len(sessions) : CountOf(sessions, TipoOf(sessions[i])) = n
        /\ \A i \in 1..Len(sessions) : CountOf(sessions, TipoOf(sessions[i])) <= n

\* the types that have the largest count
MostFrequent(sessions) ==
    {TipoOf(sessions[i]) : i \in {j \in 1..Len(sessions) :
                                     CountOf(sessions, TipoOf(sessions[j])) = TopCount(sessions)}}

\* the position in the list at which the count of a tipo reaches n
ReachesAt(sessions, tipo, n) ==
    CHOOSE i \in 1..Len(sessions) :
        /\ TipoOf(sessions[i]) = tipo
        /\ Cardinality({j \in 1..i : TipoOf(sessions[j]) = tipo}) = n

\* of the types with the largest count, the first to reach that count and
\* the first to occur
FirstToAttainMax(sessions) ==
    CHOOSE t \in MostFrequent(sessions) :
        \A u \in MostFrequent(sessions) :
            ReachesAt(sessions, t, TopCount(sessions))
                <= ReachesAt(sessions, u, TopCount(sessions))
FirstSeenOfMost(sessions) ==
    CHOOSE t \in MostFrequent(sessions) :
        \A u \in MostFrequent(sessions) : ReachesAt(sessions, t, 1) <= ReachesAt(sessions, u, 1)

\* the monthly rows of a result, and the sessions that fall in the month of a row
RowsOf(out) == IF out.kind = "stats" THEN out.value.monthly_totals ELSE <<>>
SessionsOfMonth(sessions, month) ==
    SelectSeq(sessions, LAMBDA s : HasDate(s) /\ MonthKey(ParseDate(s.fecha.s)) = month)

\* C22 as stated: most_frequent_type, and most_common_type of a month, is a
\* tipo with the highest count, and when several types share that count it
\* is the one that attains it first while the sessions are scanned in input
\* order.
C22_FirstToAttainMax ==
    /\ (sout.kind = "stats" /\ sin # <<>>) =>
           /\ sout.value.most_frequent_type = FirstToAttainMax(sin)
           /\ sout.value.most_frequent_count = TopCount(sin)
    /\ \A i \in 1..Len(RowsOf(sout)) :
           RowsOf(sout)[i].most_common_type
               = FirstToAttainMax(SessionsOfMonth(sin, RowsOf(sout)[i].month))

\* C22 amended: most_frequent_type, and most_common_type of a month, is a
\* tipo with the highest count, and when several types share that count it
\* is the one whose first session comes first in input order.
C22_FirstSeenOfMost ==
    /\ (sout.kind = "stats" /\ sin # <<>>) =>
           /\ sout.value.most_frequent_type = FirstSeenOfMost(sin)
           /\ sout.value.most_frequent_count = TopCount(sin)
    /\ \A i \in 1..Len(RowsOf(sout)) :
           RowsOf(sout)[i].most_common_type
               = FirstSeenOfMost(SessionsOfMonth(sin, RowsOf(sout)[i].month))

\* MMA, Judo, Judo, MMA in one month: Judo is the first to have two
\* sessions, MMA is reported
C22_Witness ==
    /\ sout.kind = "stats"
    /\ Len(sin) = 4
    /\ <<sin[1].tipo, sin[2].tipo, sin[3].tipo, sin[4].tipo>>
           = <<Str(T_MMA), Str(T_JUDO), Str(T_JUDO), Str(T_MMA)>>
    /\ Len(sout.value.monthly_totals) = 1
    /\ FirstToAttainMax(sin) = Str(T_JUDO)
    /\ sout.value.most_frequent_type = Str(T_MMA)
    /\ sout.value.most_frequent_count = 2
    /\ sout.value.monthly_totals[1].most_common_type = Str(T_MMA)

\* a session whose fecha is a string that strptime rejects, and a list without
\* such sessions
Unparseable(s) == s.fecha.k = "str" /\ Len(s.fecha.s) > 0 /\ ParseDate(s.fecha.s) = NoDate
Parseable(sessions) == SelectSeq(sessions, LAMBDA s : ~Unparseable(s))

\* a session with an unparseable fecha is left out of the monthly rollup, of
\* recent_activity and of both streaks, and is counted in total_sessions,
\* total_time, by_type and intensity_distribution
SkippedByDate(sessions, current_date, st) ==
    /\ st.monthly_totals = CalculateMonthlyStats(Parseable(sessions))
    /\ st.recent_activity = CalculateRecentActivity(Parseable(sessions), current_date)
    /\ st.current_streak = CalculateCurrentStreak(Parseable(sessions), current_date)
    /\ st.longest_streak = CalculateLongestStreak(Parseable(sessions))
    /\ st.total_sessions = Len(sessions)
    /\ st.total_time = TotalTime(sessions)
    /\ SumSeq([i \in 1..Len(st.by_type) |-> st.by_type[i].sessions]) = Len(sessions)
    /\ \A j \in 1..Len(sessions) :
           \E i \in 1..Len(st.by_type) : st.by_type[i].tipo = TipoOf(sessions[j])
    /\ \A l \in LevelsOf(st.intensity_distribution) :
           l.percentage = Percentage(l.count, Len(sessions))

\* C25: a session whose fecha is an unparseable string never makes an
\* aggregation raise; it is excluded from every date-dependent computation
\* (monthly rollups, recent_activity, weekly_average, current and longest
\* streak) and is still counted in total_sessions, total_time, by_type and
\* intensity_distribution.
C25_UnparseableSkipped ==
    (sin # <<>> /\ sout.kind # "none") =>
        /\ sout.kind = "stats"
        /\ SkippedByDate(sin, today, sout.value)
        /\ sout.value.weekly_average = CalculateWeeklyAverage(Parseable(sin))

\* what holds: all of C25 but weekly_average
C25_SkippedButWeekly ==
    (sin # <<>> /\ sout.kind # "none") =>
        sout.kind = "stats" /\ SkippedByDate(sin, today, sout.value)

\* a session of 28 February and one of "30 February", 60 minutes each: one
\* week is analysed and it is reported with 2.0 sessions and 120.0 minutes
C25_Example ==
    /\ sout.kind = "stats"
    /\ Len(sin) = 2
    /\ sin[1].fecha = Str(F_FEB28) /\ sin[2].fecha = Str(F_FEB30)
    /\ sout.value.weekly_average.weeks_analyzed = 10
    /\ sout.value.weekly_average.sessions = 20
    /\ sin[1].tiempo = Num(120) /\ sin[2].tiempo = Num(120)
    /\ sout.value.weekly_average.time = 1200
    /\ CalculateWeeklyAverage(Parseable(sin)).sessions = 10

\* the (year, month) pairs of the sessions whose fecha parses
MonthsOf(sessions) ==
    {<<ParseDate(sessions[i].fecha.s)[1], ParseDate(sessions[i].fecha.s)[2]>> :
        i \in {j \in 1..Len(sessions) : HasDate(sessions[j])}}

\* one row per (year, month) of the parseable fecha values, each with the
\* number of sessions of its month, the rows in descending order of their
\* month key
OneRowPerMonth(sessions, rows) ==
    /\ {<<rows[i].year, rows[i].month_number>> : i \in 1..Len(rows)} = MonthsOf(sessions)
    /\ Len(rows) = Cardinality(MonthsOf(sessions))
    /\ \A i \in 1..Len(rows) :
           rows[i].sessions =
               Cardinality({j \in 1..Len(sessions) :
                               /\ HasDate(sessions[j])
                               /\ ParseDate(sessions[j].fecha.s)[1] = rows[i].year
                               /\ ParseDate(sessions[j].fecha.s)[2] = rows[i].month_number})
    /\ SumSeq([i \in 1..Len(rows) |-> rows[i].sessions])
           = Cardinality({j \in 1..Len(sessions) : HasDate(sessions[j])})
    /\ \A i, j \in 1..Len(rows) : i < j => StrLess(rows[j].month, rows[i].month)

\* C26: calculate_monthly_stats, whose result calculate_comprehensive_stats
\* returns as monthly_totals, returns exactly one row per (year, month)
\* that occurs among the parseable fecha values, each row's sessions being
\* the number of sessions of that month, so that the rows' sessions sum to
\* the number of sessions with a parseable fecha; the rows are in
\* descending order of month key, the most recent month first.
C26_MonthlyRows ==
    sout.kind = "stats" =>
        LET rows == RowsOf(sout)
        IN  /\ OneRowPerMonth(sin, rows)
            /\ \A i, j \in 1..Len(rows) :
                   i < j => \/ rows[i].year > rows[j].year
                            \/ /\ rows[i].year = rows[j].year
                               /\ rows[i].month_number > rows[j].month_number

\* what holds of the rows: all of C26 but the order in time
C26_RowsByMonthKey ==
    sout.kind = "stats" => OneRowPerMonth(sin, RowsOf(sout))

\* a session of March 2024 and one of December 999: the row of the year 999,
\* whose key is "999-12", comes first
C26_Example ==
    /\ sout.kind = "stats"
    /\ Len(sin) = 2
    /\ sin[1].fecha = Str(F_MAR01) /\ sin[2].fecha = Str(F_Y999)
    /\ Len(RowsOf(sout)) = 2
    /\ RowsOf(sout)[1].month = <<57, 57, 57, 45, 49, 50>>
    /\ RowsOf(sout)[1].year = 999
    /\ RowsOf(sout)[2].year = 2024 /\ RowsOf(sout)[2].month_number = 3

\* the sessions of a list whose fecha is a date of the trailing days window
Qualifying(sessions, days, current_date) ==
    LET InWindow(s) == ~Unparseable(s) /\ DateOf(s) >= current_date - days
    IN  SelectSeq(sessions, InWindow)

\* C23, as stated: get_performance_trends reports trend insufficient_data with
\* change_percentage 0 for every list with fewer than 4 sessions dated within
\* the trailing days window, whatever the length of the list.  The empty list
\* is reported as stable.
C23_FewerThanFour ==
    sout.kind = "trends" /\ Len(Qualifying(sin, sout.value.days, today)) < 4
        => sout.value.trends = [trend |-> "insufficient_data", change_percentage |-> 0]

\* what does hold: the report is insufficient_data for every list that is not
\* empty and has fewer than 4 qualifying sessions, and stable for the empty one
C23_FewerThanFourOfSome ==
    sout.kind = "trends" /\ Len(Qualifying(sin, sout.value.days, today)) < 4
        => sout.value.trends =
               [trend |-> IF sin = <<>> THEN "stable" ELSE "insufficient_data",
                change_percentage |-> 0]

\* get_performance_trends([]) has returned stable
C23_Example ==
    /\ sout.kind = "trends"
    /\ sin = <<>>
    /\ sout.value.trends = [trend |-> "stable", change_percentage |-> 0]

\* the trend of the claim for qualifying sessions q, with the change computed
\* exactly: avg1 = t1 / m, avg2 = t2 / (n - m), and (avg2 - avg1) / avg1 * 100
\* = 100 * (t2 * m - t1 * (n - m)) / (t1 * (n - m))
ExactChange(q) ==
    LET n  == Len(q)
        m  == n \div 2
        t1 == TotalTime(SubSeq(q, 1, m))
        t2 == TotalTime(SubSeq(q, m + 1, n))
    IN  [avg1_is_zero |-> t1 = 0, num |-> 100 * (t2 * m - t1 * (n - m)), den |-> t1 * (n - m)]

ExactTrend(q) ==
    LET c == ExactChange(q)
    IN  IF c.avg1_is_zero THEN "stable"
        ELSE IF c.num > 10 * c.den THEN "improving"
        ELSE IF c.num < (-10) * c.den THEN "declining"
        ELSE "stable"

\* C24, as stated: with at least 4 qualifying sessions, split in list order at
\* n div 2, the trend is improving iff (avg2 - avg1) / avg1 * 100 > 10,
\* declining iff it is < -10, and stable otherwise, including when avg1 is 0.
\* The code computes the change in doubles, and a change of exactly -10 can
\* come out below -10.
C24_TrendOfChange ==
    sout.kind = "trends" /\ Len(Qualifying(sin, sout.value.days, today)) >= 4
        => sout.value.trends.trend = ExactTrend(Qualifying(sin, sout.value.days, today))

\* what does hold: the trend is the one of the claim whenever the exact change
\* is not 10 or -10, and whenever avg1 is 0
C24_TrendOffTheThreshold ==
    sout.kind = "trends" /\ Len(Qualifying(sin, sout.value.days, today)) >= 4
        => LET q == Qualifying(sin, sout.value.days, today)
               c == ExactChange(q)
           IN  c.avg1_is_zero \/ (c.num # 10 * c.den /\ c.num # (-10) * c.den)
                   => sout.value.trends.trend = ExactTrend(q)

\* six sessions of today of 40, 30, 30, 30, 30 and 30 minutes: the averages
\* are 100/3 and 30, the change is exactly -10, and the report is declining
C24_Example ==
    /\ sout.kind = "trends"
    /\ sout.value.days = 30
    /\ Len(sin) = 6
    /\ \A i \in 1..6 : sin[i].fecha = Str(F_FEB29) /\ today = FirstDay
    /\ sin[1].tiempo = Num(80)
    /\ \A i \in 2..6 : sin[i].tiempo = Num(60)
    /\ sout.value.trends = [trend |-> "declining", change_percentage |-> -100,
                            avg_time_first_period |-> 333,
                            avg_time_second_period |-> 300]



----------------------------------------------------------------------------
(* The HTTP routes of app.py over the services app.py binds: planner_service *)
(* = MockService() (app.py:97).  A request body is what request.get_json()   *)
(* returns: a JSON object over the session keys, or a JSON number.           *)

\* bodies of POST and PUT requests
B_NOT_JSON == NoBody
B_EMPTY    == [json |-> "object", data |-> NoMapping]
B_NUMBER   == [json |-> "number", data |-> NoMapping]
B_NO_TIEMPO ==
    [json |-> "object",
     data |-> [NoMapping EXCEPT !.fecha = Str(F_OCT01), !.tipo = Str(T_MMA)]]
B_NULL_FECHA ==
    [json |-> "object",
     data |-> [NoMapping EXCEPT !.fecha = Null, !.tipo = Str(T_MMA), !.tiempo = Num(120)]]
B_VALID ==
    [json |-> "object",
     data |-> [NoMapping EXCEPT !.fecha = Str(F_OCT01), !.tipo = Str(T_MMA), !.tiempo = Num(120),
                                !.peso = Num(160)]]
B_BOXEO ==
    [json |-> "object",
     data |-> [NoMapping EXCEPT !.fecha = Str(F_OCT01), !.tipo = Str(T_BOXEO), !.tiempo = Num(120)]]
B_LONG_LIGHT ==
    [json |-> "object",
     data |-> [NoMapping EXCEPT !.fecha = Str(F_M13), !.tipo = Str(T_JUDO), !.tiempo = Num(962),
                                !.peso = Num(40)]]

PostBodies == {B_NOT_JSON, B_EMPTY, B_NUMBER, B_NO_TIEMPO, B_NULL_FECHA, B_VALID, B_BOXEO,
               B_LONG_LIGHT}
PutBodies  == {B_NO_TIEMPO, B_VALID}

\* required_fields of add_session and update_session
SessionRequired == {"fecha", "tipo", "tiempo"}

\* validate_json under handle_errors: the status of the early response, 0
\* when the route function is called.  `field not in data` on a JSON number
\* raises TypeError, which handle_errors turns into 500.
ValidateJson(body, required_fields) ==
    IF body.json = "none" THEN 400
    ELSE IF body.json = "number" THEN 500
    ELSE IF body.data = NoMapping THEN 400
    ELSE IF \E field \in required_fields : body.data[field].k \in {"missing", "null"} THEN 400
    ELSE 0

\* the ids of the sessions MockService holds
MockIds == {msessions[i].id : i \in 1..Len(msessions)}

\* the response to a request, as the history keeps it
Reply(route, status, body, added, format, service) ==
    [route |-> route, status |-> status, request |-> body, added |-> added,
     stored |-> Len(msessions), format |-> format, service |-> service]

\* POST /api/sessions: add_session over MockService.save_session
AddSession(body) ==
    LET early == ValidateJson(body, SessionRequired)
    IN  IF early # 0
        THEN /\ reply' = Reply("add", early, body, FALSE, "", "")
             /\ UNCHANGED <<msessions, mnext>>
        ELSE /\ mnext < 3 + MaxPosts
             /\ msessions' = Append(msessions, [id |-> mnext, data |-> body.data])
             /\ mnext' = mnext + 1
             /\ reply' = Reply("add", 201, body, TRUE, "", "")

\* GET /api/sessions: get_sessions over MockService.load_sessions
ListSessions ==
    /\ reply' = Reply("list", 200, NoBody, FALSE, "", "")
    /\ UNCHANGED <<msessions, mnext>>

\* PUT /api/sessions/<id>: update_session over MockService.update_session
PutSession(session_id, body) ==
    LET early == ValidateJson(body, SessionRequired)
    IN  /\ UNCHANGED mnext
        /\ IF early # 0
           THEN reply' = Reply("update", early, body, FALSE, "", "") /\ UNCHANGED msessions
           ELSE IF session_id \in MockIds
           THEN /\ msessions' = [i \in 1..Len(msessions) |->
                                    IF msessions[i].id = session_id
                                    THEN [id |-> session_id, data |-> body.data]
                                    ELSE msessions[i]]
                /\ reply' = Reply("update", 200, body, FALSE, "", "")
           ELSE reply' = Reply("update", 404, body, FALSE, "", "") /\ UNCHANGED msessions

\* DELETE /api/sessions/<id>: delete_session over MockService.delete_session
RemoveSession(session_id) ==
    /\ UNCHANGED mnext
    /\ IF session_id \in MockIds
       THEN /\ msessions' = SelectSeq(msessions, LAMBDA r : r.id # session_id)
            /\ reply' = Reply("delete", 200, NoBody, FALSE, "", "")
       ELSE reply' = Reply("delete", 404, NoBody, FALSE, "", "") /\ UNCHANGED msessions

\* the route parameter of GET /api/export/<format>
Formats == {"csv", "excel", "pdf", "xml"}

\* the objects export_service can be bound to: MockService() as in
\* app.py:98, or the ExportService of export_service.py
ExportServices == {"MockService", "ExportService"}

\* export_to_csv, export_to_excel and export_to_pdf of either service:
\* MockService creates an empty file and returns its path whatever the
\* list; ExportService raises ValueError on an empty list
ExportTo(service, sessions) ==
    IF service = "ExportService" /\ Len(sessions) = 0 THEN "ValueError" ELSE "path"

\* GET /api/export/<format>: export_data under handle_errors; send_file
\* answers 200, an exception of the service is answered 500
ExportData(format, service) ==
    LET sessions == msessions
        status   == IF format \notin {"csv", "excel", "pdf"} THEN 400
                    ELSE IF ExportTo(service, sessions) = "path" THEN 200
                    ELSE 500
    IN  /\ reply' = Reply("export", status, NoBody, FALSE, format, service)
        /\ UNCHANGED <<msessions, mnext>>

AppNext ==
    \/ \E body \in PostBodies : AddSession(body)
           /\ UNCHANGED <<storeVars, raceVars, valVars, statVars, advVars, authVars>>
    \/ ListSessions /\ UNCHANGED <<storeVars, raceVars, valVars, statVars, advVars, authVars>>
    \/ \E session_id \in 1..(3 + MaxPosts), body \in PutBodies : PutSession(session_id, body)
           /\ UNCHANGED <<storeVars, raceVars, valVars, statVars, advVars, authVars>>
    \/ \E session_id \in 1..(3 + MaxPosts) : RemoveSession(session_id)
           /\ UNCHANGED <<storeVars, raceVars, valVars, statVars, advVars, authVars>>
    \/ \E format \in Formats, service \in ExportServices : ExportData(format, service)
           /\ UNCHANGED <<storeVars, raceVars, valVars, statVars, advVars, authVars>>

AppSpec == Init /\ [][AppNext]_vars

----------------------------------------------------------------------------
(* Claims about the routes *)

\* the body is a JSON object that validate_session_data accepts
PassesValidation(body) ==
    body.json = "object" /\ ValidateSessionData(body.data).kind = "ok"

\* C17: POST /api/sessions answers 201 only when the body passes the
\* session validation; a body that fails it (unparseable fecha, tipo
\* outside the enumeration, tiempo outside 1..480, peso outside 0 or
\* 30..200) is answered 400 and no record is added.
C17_AddValidates ==
    reply.route = "add" =>
        /\ reply.status = 201 => PassesValidation(reply.request)
        /\ ~PassesValidation(reply.request) => (reply.status = 400 /\ ~reply.added)

\* C18: GET /api/export/csv, /excel and /pdf answer 400 when the store
\* holds no sessions.
C18_EmptyExport ==
    (reply.route = "export" /\ reply.format \in {"csv", "excel", "pdf"} /\ reply.stored = 0)
        => reply.status = 400


\* a body with a tipo outside the enumeration has been answered 201 and
\* stored
C17_Example ==
    /\ reply.route = "add" /\ reply.status = 201 /\ reply.added
    /\ reply.request = B_BOXEO
    /\ msessions[Len(msessions)].data.tipo = Str(T_BOXEO)

\* the response in C18_EmptyExport is never 400: 200 over MockService, 500
\* over ExportService
C18_EmptyExportStatus ==
    (reply.route = "export" /\ reply.format \in {"csv", "excel", "pdf"} /\ reply.stored = 0)
        => reply.status = (IF reply.service = "MockService" THEN 200 ELSE 500)

C18_Example ==
    /\ reply.route = "export" /\ reply.format = "pdf" /\ reply.stored = 0
    /\ reply.service = "ExportService" /\ reply.status = 500


----------------------------------------------------------------------------
(* AIAdvisorService: services/ai_advisor_service.py and the class of the    *)
(* same name in app.py.  An element of the list is a JSON object over the   *)
(* session keys or a JSON value that is not an object; an advice is named   *)
(* by a tag in place of its text.                                           *)

\* elements of the list handed to get_training_advice
AdviceItems ==
    {[dict |-> TRUE, data |-> [NoMapping EXCEPT !.tipo = Str(T_GRAPPLING), !.tiempo = Num(180),
                                                !.intensidad = Str(S_ALTA)]],
     [dict |-> TRUE, data |-> [NoMapping EXCEPT !.tipo = Str(T_STRIKING), !.tiempo = Num(60),
                                                !.intensidad = Str(S_BAJA)]],
     [dict |-> TRUE, data |-> [NoMapping EXCEPT !.tipo = Str(T_GRAPPLING), !.tiempo = Num(600),
                                                !.intensidad = Str(S_BAJA)]],
     [dict |-> TRUE, data |-> [NoMapping EXCEPT !.tipo = Str(T_MMA), !.tiempo = Str(S_90),
                                                !.intensidad = Str(S_MEDIA)]],
     [dict |-> TRUE, data |-> NoMapping],
     [dict |-> FALSE, data |-> NoMapping]}

\* what the POST to the generative-text endpoint comes to: a text, a text of
\* white space only, an answer without text, or an exception of requests
GeminiOutcomes == {"text", "blank", "empty", "error"}

\* a function returned an advice
Advised(tag) == [exc |-> "", advice |-> tag]

\* an exception left a function
Raised(exc) == [exc |-> exc, advice |-> ""]

\* [s.get('tipo') for s in sessions]: AttributeError on an element that is
\* not a dict
SomeNotDict(sessions) == \E i \in 1..Len(sessions) : ~sessions[i].dict

\* sum(s.get('tiempo', 0) for s in sessions): TypeError when a tiempo is a
\* string or None
SomeTiempoNotNumber(sessions) ==
    \E i \in 1..Len(sessions) : Get(sessions[i].data.tiempo, Num(0)).k # "num"

\* sum of the tiempo values, in halves
AdviceTotalTime(sessions) ==
    SumSeq([i \in 1..Len(sessions) |-> Get(sessions[i].data.tiempo, Num(0)).n])

\* tipo in tipos
HasTipo(sessions, tipo) == \E i \in 1..Len(sessions) : sessions[i].data.tipo = Str(tipo)

\* intensidad_counts.get(level, 0) over s.get('intensidad', 'Media')
IntensityCount(sessions, level) ==
    Cardinality({i \in 1..Len(sessions) :
                     Get(sessions[i].data.intensidad, Str(S_MEDIA)) = Str(level)})

\* ai_advisor_service.py _generate_fallback_advice
GenerateFallbackAdvice(sessions) ==
    IF Len(sessions) < 2 THEN Advised("bien empezado")
    ELSE IF SomeNotDict(sessions) THEN Raised("AttributeError")
    ELSE IF SomeTiempoNotNumber(sessions) THEN Raised("TypeError")
    ELSE IF AdviceTotalTime(sessions) < 2 * 45 * Len(sessions)
    THEN Advised("sesiones mas largas")
    ELSE IF ~HasTipo(sessions, T_GRAPPLING) THEN Advised("incluye grappling")
    ELSE IF ~HasTipo(sessions, T_STRIKING) THEN Advised("agrega striking")
    ELSE IF IntensityCount(sessions, S_BAJA) = Len(sessions)
    THEN Advised("incrementa la intensidad")
    ELSE Advised("manten la consistencia")

\* ai_advisor_service.py _get_gemini_advice: _build_prompt, then the POST
GetGeminiAdvice(sessions, outcome) ==
    IF SomeNotDict(sessions) THEN Raised("AttributeError")
    ELSE IF outcome = "text" THEN Advised("gemini")
    ELSE IF outcome = "blank" THEN Advised("")
    ELSE Raised("Exception")

\* what a call of get_training_advice comes to
Returned(type, advice, version, call) ==
    [kind |-> "return", type |-> type, advice |-> advice, version |-> version, call |-> call]

Thrown(exc, version, call) ==
    [kind |-> "raise", type |-> exc, advice |-> "", version |-> version, call |-> call]

\* history: how far the call of the endpoint got: "" without a key,
\* "prompt" when building the prompt raised, else what the POST came to
CallMade(is_configured, gemini, outcome) ==
    IF ~is_configured THEN ""
    ELSE IF gemini.exc \in {"AttributeError", "TypeError"} THEN "prompt"
    ELSE outcome

\* ai_advisor_service.py AIAdvisorService.get_training_advice
GetTrainingAdvice(sessions, is_configured, outcome) ==
    LET gemini   == GetGeminiAdvice(sessions, outcome)
        fallback == GenerateFallbackAdvice(sessions)
        call     == CallMade(is_configured, gemini, outcome)
    IN  IF Len(sessions) = 0 THEN Returned("info", "comienza", "services", "")
        ELSE IF is_configured /\ gemini.exc = ""
        THEN Returned("ai", gemini.advice, "services", call)
        ELSE IF fallback.exc # "" THEN Thrown(fallback.exc, "services", call)
        ELSE Returned("fallback", fallback.advice, "services", call)

\* app.py _generate_smart_fallback up to random.choice: the exception, or
\* the set of advices in consejos.  alta_intensidad > len(sessions) * 0.7 is
\* compared in tenths; no list shorter than 10 meets the threshold exactly.
SmartFallbackAdvices(sessions) ==
    LET n        == Len(sessions)
        total    == AdviceTotalTime(sessions)
        tipos    == {Get(sessions[i].data.tipo, Null) : i \in 1..n}
        alta     == IntensityCount(sessions, S_ALTA)
        consejos ==
            (IF Cardinality(tipos) = 1 THEN {"diversifica"} ELSE {})
            \cup (IF 10 * alta > 7 * n THEN {"recuperacion activa"}
                  ELSE IF alta = 0 /\ n > 5 THEN {"agrega alta intensidad"} ELSE {})
            \cup (IF total < 2 * 45 * n THEN {"aumenta la duracion"}
                  ELSE IF total > 2 * 120 * n THEN {"sesiones largas"} ELSE {})
            \cup (IF ~HasTipo(sessions, T_CARDIO) /\ n > 5 THEN {"agrega cardio"} ELSE {})
            \cup (IF ~HasTipo(sessions, T_GRAPPLING) /\ ~HasTipo(sessions, T_STRIKING)
                  THEN {"grappling y striking"} ELSE {})
    IN  IF n < 3 THEN [exc |-> "", advices |-> {"agrega mas sesiones"}]
        ELSE IF SomeNotDict(sessions) THEN [exc |-> "AttributeError", advices |-> {}]
        ELSE IF SomeTiempoNotNumber(sessions) THEN [exc |-> "TypeError", advices |-> {}]
        ELSE IF consejos = {} THEN [exc |-> "", advices |-> {"excelente balance"}]
        ELSE [exc |-> "", advices |-> consejos]

\* app.py _build_advanced_prompt, then GeminiManager.get_suggestion
GetSuggestion(sessions, outcome) ==
    IF SomeNotDict(sessions) THEN Raised("AttributeError")
    ELSE IF SomeTiempoNotNumber(sessions) THEN Raised("TypeError")
    ELSE IF outcome = "text" THEN Advised("gemini")
    ELSE IF outcome = "blank" THEN Advised("")
    ELSE Raised("Exception")

\* app.py AIAdvisorService.get_training_advice: the results it can come to,
\* one for each advice random.choice can pick
AppTrainingAdvice(sessions, is_configured, outcome) ==
    LET gemini   == GetSuggestion(sessions, outcome)
        fallback == SmartFallbackAdvices(sessions)
        call     == CallMade(is_configured, gemini, outcome)
    IN  IF Len(sessions) = 0 THEN {Returned("info", "comienza", "app", "")}
        ELSE IF is_configured /\ gemini.exc = ""
        THEN {Returned("ai", gemini.advice, "app", call)}
        ELSE IF fallback.exc # "" THEN {Thrown(fallback.exc, "app", call)}
        ELSE {Returned("fallback", advice, "app", call) : advice \in fallback.advices}

\* the caller puts one more element on the list it will hand over
AdviceAdd(item) ==
    /\ Len(ain) < MaxAdvised
    /\ ain' = Append(ain, item)
    /\ UNCHANGED <<akey, aout, aprev>>

\* AIAdvisorService() is constructed in an environment with or without
\* GEMINI_API_KEY
Construct(key) ==
    /\ aout.kind = "none"
    /\ akey' = key
    /\ UNCHANGED <<ain, aout, aprev>>

\* ai_advisor_service.py: get_training_advice(ain) is called and ends; the
\* caller may call again with the list it has
CallServiceAdvice(outcome) ==
    /\ aout' = GetTrainingAdvice(ain, akey, outcome)
    /\ aprev' = aout
    /\ UNCHANGED <<akey, ain>>

\* app.py: ai_advisor.get_training_advice(ain) is called and ends; the
\* caller may call again with the list it has
CallAppAdvice(outcome) ==
    /\ aout' \in AppTrainingAdvice(ain, akey, outcome)
    /\ aprev' = aout
    /\ UNCHANGED <<akey, ain>>

\* the caller has taken the result
AdviceReturn ==
    /\ aout.kind # "none"
    /\ ain' = <<>>
    /\ aout' = NoAdvice
    /\ aprev' = NoAdvice
    /\ UNCHANGED akey

AdviceNext ==
    \/ (aout.kind = "none" /\ \E item \in AdviceItems : AdviceAdd(item))
           /\ UNCHANGED <<storeVars, raceVars, valVars, statVars, appVars, authVars>>
    \/ \E key \in BOOLEAN : Construct(key)
           /\ UNCHANGED <<storeVars, raceVars, valVars, statVars, appVars, authVars>>
    \/ \E outcome \in GeminiOutcomes : CallServiceAdvice(outcome)
           /\ UNCHANGED <<storeVars, raceVars, valVars, statVars, appVars, authVars>>
    \/ \E outcome \in GeminiOutcomes : CallAppAdvice(outcome)
           /\ UNCHANGED <<storeVars, raceVars, valVars, statVars, appVars, authVars>>
    \/ AdviceReturn /\ UNCHANGED <<storeVars, raceVars, valVars, statVars, appVars, authVars>>

AdviceSpec == Init /\ [][AdviceNext]_vars

----------------------------------------------------------------------------
(* Claims about the advisor *)

\* C19: get_training_advice never raises and returns a type in {ai,
\* fallback, info}: info when the list is empty, ai when the key is
\* configured and the call succeeds, fallback otherwise.
C19_AdviceType ==
    aout.kind # "none" =>
        /\ aout.kind = "return"
        /\ aout.type \in {"ai", "fallback", "info"}
        /\ aout.type = "info" <=> ain = <<>>
        /\ aout.type = "ai" <=> (ain # <<>> /\ akey /\ aout.call \in {"text", "blank"})

\* every element is a dict whose tiempo is a number or absent
WellTyped(sessions) == ~SomeNotDict(sessions) /\ ~SomeTiempoNotNumber(sessions)

\* the statement of C19 holds of the lists of well-typed sessions
C19_WellTypedAdvice ==
    (aout.kind # "none" /\ WellTyped(ain)) =>
        /\ aout.kind = "return"
        /\ aout.type \in {"ai", "fallback", "info"}
        /\ aout.type = "info" <=> ain = <<>>
        /\ aout.type = "ai" <=> (ain # <<>> /\ akey /\ aout.call \in {"text", "blank"})

\* two sessions, one with tiempo "90": the fallback raises TypeError
C19_Example ==
    /\ aout.kind = "raise" /\ aout.type = "TypeError" /\ aout.version = "services"
    /\ Len(ain) = 2 /\ ~SomeNotDict(ain)
    /\ ~akey

\* C27: the fallback suggestion is a deterministic function of the session
\* list: two calls of get_training_advice of one advisor with the same
\* sessions that both take the fallback path return the same text.
C27_FallbackDeterministic ==
    /\ aout.kind = "return" /\ aout.type = "fallback"
    /\ aprev.kind = "return" /\ aprev.type = "fallback"
    /\ aprev.version = aout.version
    => aout.advice = aprev.advice

\* what does hold: two fallback calls of services/ai_advisor_service.py with
\* the same sessions return the same text
C27_ServiceFallbackDeterministic ==
    /\ aout.kind = "return" /\ aout.type = "fallback" /\ aout.version = "services"
    /\ aprev.kind = "return" /\ aprev.type = "fallback" /\ aprev.version = "services"
    => aout.advice = aprev.advice

\* two calls of the advisor of app.py with the same three sessions, both on
\* the fallback path, have returned two different advices
C27_Example ==
    /\ Len(ain) = 3
    /\ aout.kind = "return" /\ aout.type = "fallback" /\ aout.version = "app"
    /\ aprev.kind = "return" /\ aprev.type = "fallback" /\ aprev.version = "app"
    /\ aprev.advice = "diversifica" /\ aout.advice = "aumenta la duracion"



----------------------------------------------------------------------------
(* AuthService (services/auth_service.py): the token map and the calls that *)
(* change it.  Time is counted in hours; secrets.token_urlsafe(32) returns  *)
(* a string it has not returned before, the tokens 1, 2, ... in the order   *)
(* of their generation.                                                     *)

P_NUEVO456 == <<110, 117, 101, 118, 111, 52, 53, 54>>      \* "nuevo456"
P_ABC      == <<97, 98, 99>>      \* "abc"

\* timedelta(hours=24) of generate_token and the default of extend_token
TokenHours == 24

\* the clock is read once a day
TickHours == 24

\* a string that generate_token never returned
BogusToken == 99

\* the tokens a client presents
PresentedTokens == 1..MaxTokens \cup {BogusToken}

\* the tokens of the map that belong to a user
TokensOf(username) == {t \in DOMAIN tokens : tokens[t].username = username}

\* the map without some of its tokens
Without(map, gone) == [t \in DOMAIN map \ gone |-> map[t]]

\* history: the tokens of a user are no longer those generate_token returned
DisturbedOf(username) ==
    [t \in DOMAIN minted |->
        IF minted[t].username = username THEN [minted[t] EXCEPT !.disturbed = TRUE]
        ELSE minted[t]]

\* AuthService.authenticate
Authenticate(username, password) ==
    /\ username \in DOMAIN users
    /\ users[username].password_hash = HashPassword(password)

\* time passes
AuthTick ==
    /\ tnow < MaxTicks * TickHours
    /\ tnow' = tnow + TickHours
    /\ aret' = NoRet
    /\ minted' = [t \in DOMAIN minted |->
                     [minted[t] EXCEPT !.lapsed = @ \/ tnow' > minted[t].expires]]
    /\ UNCHANGED <<users, tokens>>

\* AuthService.generate_token
GenerateToken(username) ==
    LET token == Cardinality(DOMAIN minted) + 1
    IN  /\ token <= MaxTokens
        /\ tokens' = tokens @@ (token :> [username |-> username, created_at |-> tnow,
                                          expires_at |-> tnow + TokenHours])
        /\ minted' = minted @@ (token :> [username |-> username, at |-> tnow,
                                          expires |-> tnow + TokenHours,
                                          disturbed |-> FALSE, lapsed |-> FALSE])
        /\ aret' = NoRet
        /\ UNCHANGED <<users, tnow>>

\* mutant: a token is taken to expire when its last hour begins
IsExpiredFromLastHour(token_data, t) == t >= token_data.expires_at

\* datetime.now() > token_data["expires_at"]
IsExpired(token_data, t) == t > token_data.expires_at

\* AuthService.validate_token
ValidateToken(token) ==
    /\ UNCHANGED <<users, tnow, minted>>
    /\ IF token \notin DOMAIN tokens
       THEN /\ aret' = [op |-> "validate", token |-> token, result |-> Null]
            /\ UNCHANGED tokens
       ELSE IF IsExpired(tokens[token], tnow)
       THEN /\ tokens' = Without(tokens, {token})
            /\ aret' = [op |-> "validate", token |-> token, result |-> Null]
       ELSE /\ aret' = [op |-> "validate", token |-> token,
                        result |-> Str(tokens[token].username)]
            /\ UNCHANGED tokens

\* AuthService.logout
Logout(token) ==
    /\ token \in DOMAIN tokens
    /\ tokens' = Without(tokens, {token})
    /\ minted' = [minted EXCEPT ![token].disturbed = TRUE]
    /\ aret' = NoRet
    /\ UNCHANGED <<users, tnow>>

\* AuthService.extend_token
ExtendToken(token, hours) ==
    /\ token \in DOMAIN tokens
    /\ tokens' = [tokens EXCEPT ![token].expires_at = tnow + hours]
    /\ minted' = [minted EXCEPT ![token].disturbed = TRUE, ![token].expires = tnow + hours]
    /\ aret' = NoRet
    /\ UNCHANGED <<users, tnow>>

\* AuthService.cleanup_expired_tokens
CleanupExpiredTokens ==
    /\ tokens' = Without(tokens, {t \in DOMAIN tokens : tnow > tokens[t].expires_at})
    /\ aret' = NoRet
    /\ UNCHANGED <<users, tnow, minted>>

\* what change_password and delete_user return, by its "success"
Answered(op, username, success) == [op |-> op, username |-> username, success |-> success]

\* mutant: the sessions of the user outlive the change of password
ChangePasswordKeepingSessions(username, old_password, new_password) ==
    /\ UNCHANGED tnow
    /\ IF ~Authenticate(username, old_password) \/ Len(new_password) < 6
       THEN /\ aret' = Answered("change_password", username, FALSE)
            /\ UNCHANGED <<users, tokens, minted>>
       ELSE /\ users' = [users EXCEPT
                            ![username].password_hash = HashPassword(new_password)]
            /\ aret' = Answered("change_password", username, TRUE)
            /\ UNCHANGED <<tokens, minted>>

\* AuthService.change_password
ChangePassword(username, old_password, new_password) ==
    /\ UNCHANGED tnow
    /\ IF ~Authenticate(username, old_password) \/ Len(new_password) < 6
       THEN /\ aret' = Answered("change_password", username, FALSE)
            /\ UNCHANGED <<users, tokens, minted>>
       ELSE /\ users' = [users EXCEPT
                            ![username].password_hash = HashPassword(new_password)]
            /\ tokens' = Without(tokens, TokensOf(username))
            /\ minted' = DisturbedOf(username)
            /\ aret' = Answered("change_password", username, TRUE)

\* AuthService.delete_user
DeleteUser(username_to_delete, requesting_user) ==
    /\ UNCHANGED tnow
    /\ IF \/ requesting_user \notin DOMAIN users
          \/ users[requesting_user].role # "admin"
          \/ username_to_delete = requesting_user
          \/ username_to_delete \notin DOMAIN users
       THEN /\ aret' = Answered("delete_user", username_to_delete, FALSE)
            /\ UNCHANGED <<users, tokens, minted>>
       ELSE /\ users' = Without(users, {username_to_delete})
            /\ tokens' = Without(tokens, TokensOf(username_to_delete))
            /\ minted' = DisturbedOf(username_to_delete)
            /\ aret' = Answered("delete_user", username_to_delete, TRUE)

\* the user names and passwords the callers pass
Usernames == {U_ADMIN, U_DEMO}

AuthNext ==
    \/ AuthTick /\ UNCHANGED <<storeVars, raceVars, valVars, statVars, appVars, advVars>>
    \/ \E username \in Usernames : GenerateToken(username)
           /\ UNCHANGED <<storeVars, raceVars, valVars, statVars, appVars, advVars>>
    \/ \E token \in PresentedTokens : ValidateToken(token)
           /\ UNCHANGED <<storeVars, raceVars, valVars, statVars, appVars, advVars>>
    \/ \E token \in PresentedTokens : Logout(token)
           /\ UNCHANGED <<storeVars, raceVars, valVars, statVars, appVars, advVars>>
    \/ \E token \in PresentedTokens : ExtendToken(token, TokenHours)
           /\ UNCHANGED <<storeVars, raceVars, valVars, statVars, appVars, advVars>>
    \/ CleanupExpiredTokens
           /\ UNCHANGED <<storeVars, raceVars, valVars, statVars, appVars, advVars>>
    \/ \E username \in Usernames, old_password \in {P_DEMO123, P_NUEVO456},
          new_password \in {P_NUEVO456, P_ABC} :
           ChangePassword(username, old_password, new_password)
           /\ UNCHANGED <<storeVars, raceVars, valVars, statVars, appVars, advVars>>
    \/ \E username_to_delete \in Usernames, requesting_user \in Usernames :
           DeleteUser(username_to_delete, requesting_user)
           /\ UNCHANGED <<storeVars, raceVars, valVars, statVars, appVars, advVars>>

AuthSpec == Init /\ [][AuthNext]_vars

U_NUEVO  == <<110, 117, 101, 118, 111>>      \* "nuevo"
U_AB     == <<97, 98>>      \* "ab"
E_AT     == <<110, 64, 109, 109, 97>>      \* "n@mma"
E_PLAIN  == <<110, 117, 101, 118, 111>>      \* "nuevo"

\* AuthService.create_user; full_name is stored and never read
CreateUser(username, password, email, role) ==
    /\ aret' = NoRet
    /\ UNCHANGED <<tokens, tnow, minted>>
    /\ IF \/ username \in DOMAIN users
          \/ Len(username) < 3
          \/ Len(password) < 6
          \/ (Len(email) > 0 /\ \A i \in 1..Len(email) : email[i] # 64)      \* "@"
       THEN UNCHANGED users
       ELSE users' = users @@ (username :> [password_hash |-> HashPassword(password),
                                           role |-> role])

\* AuthService.update_user_role
UpdateUserRole(username, new_role, requesting_user) ==
    /\ aret' = NoRet
    /\ UNCHANGED <<tokens, tnow, minted>>
    /\ IF \/ requesting_user \notin DOMAIN users
          \/ users[requesting_user].role # "admin"
          \/ username \notin DOMAIN users
          \/ new_role \notin {"user", "admin", "moderator"}
          \/ username = requesting_user
       THEN UNCHANGED users
       ELSE users' = [users EXCEPT ![username].role = new_role]

\* the user names, and the roles, the callers of AccountSpec pass
AccountNames == {U_ADMIN, U_DEMO, U_NUEVO, U_AB}
AccountRoles == {"user", "admin", "moderator", "root"}

AccountNext ==
    \/ \E username \in AccountNames, password \in {P_NUEVO456, P_ABC},
          email \in {<<>>, E_AT, E_PLAIN}, role \in AccountRoles :
           CreateUser(username, password, email, role)
           /\ UNCHANGED <<storeVars, raceVars, valVars, statVars, appVars, advVars>>
    \/ \E username \in AccountNames, new_role \in AccountRoles,
          requesting_user \in AccountNames :
           UpdateUserRole(username, new_role, requesting_user)
           /\ UNCHANGED <<storeVars, raceVars, valVars, statVars, appVars, advVars>>
    \/ \E username \in AccountNames, old_password \in {P_DEMO123, P_NUEVO456},
          new_password \in {P_NUEVO456, P_ABC} :
           ChangePassword(username, old_password, new_password)
           /\ UNCHANGED <<storeVars, raceVars, valVars, statVars, appVars, advVars>>
    \/ \E username_to_delete \in AccountNames, requesting_user \in AccountNames :
           DeleteUser(username_to_delete, requesting_user)
           /\ UNCHANGED <<storeVars, raceVars, valVars, statVars, appVars, advVars>>

AccountSpec == Init /\ [][AccountNext]_vars

----------------------------------------------------------------------------
(* Claims about AuthService *)

\* C20: a token returned by generate_token(u) validates to u at every time
\* up to 24 hours after it was issued, provided no logout, password change,
\* user deletion or extend_token has touched it; validate_token returns
\* None once the expiry of the token has passed, and for a string that was
\* never issued.
C20_TokenValidity ==
    aret.op = "validate" =>
        LET t == aret.token
        IN  /\ (t \in DOMAIN minted /\ ~minted[t].disturbed
                  /\ tnow <= minted[t].at + 24)
                   => aret.result = Str(minted[t].username)
            /\ (t \in DOMAIN minted /\ tnow > minted[t].expires) => aret.result = Null
            /\ t \notin DOMAIN minted => aret.result = Null

\* a token validated 24 hours after its generation, another one issued
\* and not yet validated
C20_Witness ==
    /\ aret.op = "validate"
    /\ aret.token = 1
    /\ 1 \in DOMAIN minted
    /\ ~minted[1].disturbed
    /\ tnow = minted[1].at + 24
    /\ aret.result = Str(U_DEMO)
    /\ 2 \in DOMAIN minted

\* the other two cases of C20: an expired token and a string never issued
C20_WitnessExpired ==
    /\ aret.op = "validate" /\ aret.token = 1 /\ aret.result = Null
    /\ 1 \in DOMAIN minted
    /\ ~minted[1].disturbed /\ tnow > minted[1].expires

C20_WitnessBogus ==
    /\ aret.op = "validate" /\ aret.token = BogusToken /\ aret.result = Null
    /\ DOMAIN minted # {}

\* valid_roles of update_user_role, the roles of the user record
ValidRoles == {"user", "admin", "moderator"}

\* C28: after any sequence of create_user, update_user_role, delete_user and
\* change_password calls, the role of every stored user is one of user,
\* admin, moderator.  create_user stores the role it is given.
C28_StoredRoles ==
    \A username \in DOMAIN users : users[username].role \in ValidRoles

\* what does hold: a role that a call gives to a user who was already stored
\* is one of the three
C28_ChangedRoles ==
    [][\A username \in DOMAIN users \cap DOMAIN users' :
           users'[username].role # users[username].role
               => users'[username].role \in ValidRoles]_vars

\* create_user("nuevo", "nuevo456", role="root") has stored the role root
C28_Example ==
    /\ U_NUEVO \in DOMAIN users
    /\ users[U_NUEVO].role = "root"
    /\ users[U_NUEVO].password_hash = HashPassword(P_NUEVO456)

\* C29: once the expiry time of a token has passed, no later sequence of
\* validate_token, extend_token, cleanup_expired_tokens and logout calls makes
\* validate_token return a username for that token again.  extend_token does
\* not look at the expiry of the token it extends.
C29_ExpiredForGood ==
    (aret.op = "validate" /\ aret.token \in DOMAIN minted /\ minted[aret.token].lapsed)
        => aret.result = Null

\* what does hold: a token validates after its expiry has passed only if
\* extend_token gave it an expiry that has not passed
C29_ExpiredUnlessExtended ==
    (aret.op = "validate" /\ aret.token \in DOMAIN minted /\ minted[aret.token].lapsed
       /\ aret.result # Null)
        => minted[aret.token].disturbed /\ tnow <= minted[aret.token].expires

\* a token of demo issued at hour 0 has validated to demo at hour 48
C29_Example ==
    /\ aret.op = "validate" /\ aret.token = 1 /\ aret.result = Str(U_DEMO)
    /\ minted[1].at = 0 /\ minted[1].lapsed
    /\ tnow = 2 * TokenHours

\* C30: a successful change_password(u, ...) or delete_user(u, admin) removes
\* every token of u from the map and leaves the tokens of the other users as
\* they were; a failed one removes no token and changes no user record; a
\* token that has left the map does not come back, and validate_token
\* returns None for a token that is not in the map.
C30_Revocation ==
    [][/\ aret'.op \in {"change_password", "delete_user"}
          => IF aret'.success
             THEN /\ \A t \in DOMAIN tokens :
                        tokens[t].username = aret'.username => t \notin DOMAIN tokens'
                  /\ \A t \in DOMAIN tokens :
                        tokens[t].username # aret'.username
                            => t \in DOMAIN tokens' /\ tokens'[t] = tokens[t]
             ELSE tokens' = tokens /\ users' = users
       /\ \A t \in DOMAIN minted \ DOMAIN tokens : t \notin DOMAIN tokens'
       /\ (aret'.op = "validate" /\ aret'.token \notin DOMAIN tokens)
          => aret'.result = Null]_vars

\* change_password(demo, ...) has succeeded: the token of demo is gone and
\* the token of admin is in the map
C30_Witness ==
    /\ aret = Answered("change_password", U_DEMO, TRUE)
    /\ DOMAIN minted = {1, 2}
    /\ minted[1].username = U_DEMO /\ minted[2].username = U_ADMIN
    /\ DOMAIN tokens = {2}
    /\ users[U_DEMO].password_hash = HashPassword(P_NUEVO456)

\* delete_user(demo, admin) has succeeded with the same tokens
C30_WitnessDeleted ==
    /\ aret = Answered("delete_user", U_DEMO, TRUE)
    /\ DOMAIN minted = {1, 2}
    /\ minted[1].username = U_DEMO /\ minted[2].username = U_ADMIN
    /\ DOMAIN tokens = {2}
    /\ U_DEMO \notin DOMAIN users

\* a change_password with a wrong old password has failed with tokens in the map
C30_WitnessFailed ==
    /\ aret = Answered("change_password", U_ADMIN, FALSE)
    /\ DOMAIN tokens = {1, 2}

====
